---- MODULE Spec2Model ----
(***************************************************************************)
(* psqlc.py: the settings locator (find_settings_recursive), the config    *)
(* normalizer (parse_django_settings and its process-wide memo), the       *)
(* command dispatcher with its escalation retry (run_command) and the      *)
(* privileged workflows (create_user_db, drop_database, drop_user, show).  *)
(***************************************************************************)
EXTENDS Integers, Sequences, FiniteSets, TLC

VARIABLES fs, loc, rc, wf, rs

vars == <<fs, loc, rc, wf, rs>>

(***************************************************************************)
(* Bounds of the model.                                                    *)
(***************************************************************************)
MaxUp == 2
MaxDown == 2
MaxTargets == 2
MaxDispatch == 4
MaxName == 2
MaxTyped == 3
MaxPrompts == 2
MaxCalls == 2
MaxFiles == 2

(***************************************************************************)
(* The filesystem.  A directory is identified by its path from the         *)
(* filesystem root: the sequence of the listing positions taken to reach   *)
(* it.  <<>> is the filesystem root "/".                                   *)
(***************************************************************************)
Skeleton ==
    { <<>>, <<1>>, <<1, 1>>, <<1, 2>>, <<1, 1, 1>>, <<1, 1, 2>>, <<1, 1, 1, 1>> }

\* Path.parent: the filesystem root is its own parent.
Parent(d) == IF d = <<>> THEN d ELSE SubSeq(d, 1, Len(d) - 1)

\* d lies in the subtree of r (r itself included).
Below(d, r) == Len(r) <= Len(d) /\ SubSeq(d, 1, Len(r)) = r

\* A directory name is a sequence of fragments: "my-env" is <<"my", "-env">>.
PlainName == <<"pkg">>
SpecialNames ==
    { <<"venv">>, <<"my", "-env">>, <<"my", "venv">>, <<"node_modules">>, <<"__pycache__">> }

\* '-env' in item.name
HasEnvMarker(name) == \E i \in 1..Len(name) : name[i] = "-env"

\* A scan that prunes only the three fixed names and forgets the '-env' marker.
ExcludedNoMarker(name) ==
    name \in { <<"node_modules">>, <<"venv">>, <<"__pycache__">> }

\* item.name in {'node_modules', 'venv', '__pycache__'} or '-env' in item.name
Excluded(name) ==
    \/ name \in { <<"node_modules">>, <<"venv">>, <<"__pycache__">> }
    \/ HasEnvMarker(name)

\* root.iterdir(): the child directories of d in listing order.
RECURSIVE SortByLast(_)
SortByLast(S) ==
    IF S = {} THEN <<>>
    ELSE LET m == CHOOSE x \in S : \A y \in S : x[Len(x)] <= y[Len(y)]
         IN  <<m>> \o SortByLast(S \ {m})

iterdir(f, d) ==
    SortByLast({ c \in f.dirs : c # <<>> /\ Parent(c) = d })

\* return None
NotFound == [found |-> FALSE, dir |-> <<>>, raised |-> FALSE]

\* A PermissionError that leaves search_down.
Raised == [found |-> FALSE, dir |-> <<>>, raised |-> TRUE]

\* except (PermissionError, OSError): pass -- followed by return None.
Swallowed(result) == IF result.raised THEN NotFound ELSE result

\* A depth test that lets the scan go one level too deep.
DepthExceededLate(current_depth, max_depth_down) == current_depth > max_depth_down + 1

\* if current_depth > max_depth_down: return None
DepthExceeded(current_depth, max_depth_down) == current_depth > max_depth_down

\* if result: return result -- else go on with the next item; an error
\* raised by the call for one item ends the loop.
OrElse(result, rest) == IF result.found \/ result.raised THEN result ELSE rest

\* search_down: the bounded depth-first scan below one root.  The result
\* names the directory that holds the file.  For a directory without search
\* permission candidate.is_file() raises PermissionError, outside the try
\* block, where Path.is_file re-raises it (pathlib up to Python 3.12), and
\* is False where it does not; root.iterdir() raises inside the try block
\* for a directory that cannot be listed.
RECURSIVE search_down(_, _, _, _, _)
RECURSIVE search_items(_, _, _, _, _)
search_down(f, filename, max_depth_down, root, current_depth) ==
    IF DepthExceeded(current_depth, max_depth_down) THEN NotFound
    ELSE IF root \in f.noaccess /\ f.is_file_raises THEN Raised
    ELSE IF filename \in f.files[root] /\ root \notin f.noaccess
    THEN [found |-> TRUE, dir |-> root, raised |-> FALSE]
    ELSE IF root \notin f.listable \/ root \in f.noaccess THEN NotFound
    ELSE Swallowed(search_items(f, filename, max_depth_down, iterdir(f, root),
                                current_depth))

\* for item in root.iterdir(): descend into the directories not excluded.
search_items(f, filename, max_depth_down, items, current_depth) ==
    IF items = <<>> THEN NotFound
    ELSE OrElse(IF ~Excluded(f.name[Head(items)])
                THEN search_down(f, filename, max_depth_down, Head(items), current_depth + 1)
                ELSE NotFound,
                search_items(f, filename, max_depth_down, Tail(items), current_depth))

\* The while loop of step 2: one downward scan per ancestor.  roots lists
\* the directories scanned so far.
RECURSIVE walk_up(_, _, _, _, _, _, _)
RECURSIVE walk_up_scanned(_, _, _, _, _, _, _, _)
walk_up(f, filename, max_depth_up, max_depth_down, current, depth, roots) ==
    IF current # Parent(current) /\ depth <= max_depth_up
    THEN walk_up_scanned(f, filename, max_depth_up, max_depth_down, current, depth, roots,
                         search_down(f, filename, max_depth_down, current, 0))
    ELSE [found |-> FALSE, dir |-> <<>>, roots |-> roots, raised |-> FALSE]

\* The loop body after result = search_down(current).
walk_up_scanned(f, filename, max_depth_up, max_depth_down, current, depth, roots, result) ==
    IF result.found
    THEN [found |-> TRUE, dir |-> result.dir, roots |-> Append(roots, current),
          raised |-> FALSE]
    ELSE IF result.raised
    THEN [found |-> FALSE, dir |-> <<>>, roots |-> Append(roots, current), raised |-> TRUE]
    ELSE walk_up(f, filename, max_depth_up, max_depth_down,
                 Parent(current), depth + 1, Append(roots, current))

\* find_settings_recursive after step 1, whose result is down.
find_after_down(f, start_path, max_depth_up, max_depth_down, filename, down) ==
    IF down.found \/ down.raised
    THEN [found |-> down.found, dir |-> down.dir, roots |-> <<start_path>>,
          raised |-> down.raised, down |-> down]
    ELSE IF max_depth_up > 0
    THEN walk_up(f, filename, max_depth_up, max_depth_down,
                 Parent(start_path), 0, <<start_path>>) @@ [down |-> down]
    ELSE [found |-> FALSE, dir |-> <<>>, roots |-> <<start_path>>, raised |-> FALSE,
          down |-> down]

\* find_settings_recursive.  roots lists the directories search_down was
\* started from, in order; down is the result of step 1.
find_settings_recursive(f, start_path, max_depth_up, max_depth_down, filename) ==
    find_after_down(f, start_path, max_depth_up, max_depth_down, filename,
                    search_down(f, filename, max_depth_down, start_path, 0))

(***************************************************************************)
(* The locator applied to the trees of the model.                          *)
(***************************************************************************)
TargetName == "settings.py"

\* The trees: at most MaxTargets directories hold the file, and at most one
\* directory is either named specially or cannot be listed.
Trees ==
    { [dirs |-> Skeleton,
       name |-> [d \in Skeleton |-> IF d = <<>> THEN <<>>
                                    ELSE IF d = sd THEN sn ELSE PlainName],
       files |-> [d \in Skeleton |-> IF d \in T THEN {TargetName} ELSE {}],
       listable |-> Skeleton \ U,
       noaccess |-> {},
       is_file_raises |-> FALSE,
       content |-> <<>>] :
      T \in { X \in SUBSET Skeleton : Cardinality(X) <= MaxTargets },
      sd \in Skeleton \ {<<>>},
      sn \in SpecialNames \cup {PlainName},
      U \in { X \in SUBSET Skeleton : Cardinality(X) <= 1 } }

LocIdle == [pc |-> "idle"]
RcIdle == [pc |-> "idle"]
WfIdle == [pc |-> "idle"]
RsIdle == [pc |-> "idle"]
FsIdle ==
    [dirs |-> Skeleton,
     name |-> [d \in Skeleton |-> IF d = <<>> THEN <<>> ELSE PlainName],
     files |-> [d \in Skeleton |-> {}],
     listable |-> Skeleton,
     noaccess |-> {},
     is_file_raises |-> FALSE,
     content |-> <<>>]

InitLocator ==
    /\ rc = RcIdle
    /\ wf = WfIdle
    /\ rs = RsIdle
    /\ fs \in { t \in Trees :
                 \/ t.listable = Skeleton
                 \/ \A d \in Skeleton : t.name[d] \in {<<>>, PlainName} }
    /\ \E s \in Skeleton, up \in 0..MaxUp, down \in 0..MaxDown :
          loc = [pc |-> "ready", start_path |-> s,
                 max_depth_up |-> up, max_depth_down |-> down]

FindSettingsRecursive ==
    /\ loc.pc = "ready"
    /\ loc' = [loc EXCEPT !.pc = "done"] @@
              [out |-> find_settings_recursive(fs, loc.start_path, loc.max_depth_up,
                                               loc.max_depth_down, TargetName)]
    /\ UNCHANGED <<fs, rc, wf, rs>>

NextLocator == FindSettingsRecursive

SpecLocator == InitLocator /\ [][NextLocator]_vars

(***************************************************************************)
(* run_command: the dispatcher with its escalation retry.                  *)
(***************************************************************************)
None == "None"

\* Python truth of an optional string: None and '' are false.
Truthy(v) == v \notin {None, ""}

\* Error texts are sequences of words.
LowerWord(w) ==
    CASE w = "Permission" -> "permission"
      [] w = "DENIED" -> "denied"
      [] w = "Must" -> "must"
      [] w = "PermissionError" -> "permissionerror"
      [] w = "PostgreSQL" -> "postgresql"
      [] w = ".PostgreSQL" -> ".postgresql"
      [] w = "Django.DB.Backends.PostgreSQL" -> "django.db.backends.postgresql"
      [] w = "POSTGRES" -> "postgres"
      [] w = "H" -> "h"
      [] OTHER -> w

\* str(e).lower()
Lower(msg) == [i \in 1..Len(msg) |-> LowerWord(msg[i])]

\* k in msg
Contains(msg, k) ==
    \E i \in 0..(Len(msg) - Len(k)) : SubSeq(msg, i + 1, i + Len(k)) = k

permission_indicators ==
    << <<"permission", "denied">>,
       <<"insufficient", "privilege">>,
       <<"must", "be", "superuser">>,
       <<"role", ".*", "does", "not", "have", "permission">>,
       <<"not", "authorized">>,
       <<"insufficient", "privilege">>,
       <<"permissionerror">> >>

\* any(k in msg for k in permission_indicators), msg = str(e).lower()
IsPermissionFailure(e) ==
    \E n \in 1..Len(permission_indicators) : Contains(Lower(e), permission_indicators[n])

\* The errors an operation raises in the model.
ErrorTexts ==
    { <<"permission", "denied", "for", "database">>,
      <<"ERROR", "Permission", "DENIED">>,
      <<"Must", "be", "superuser", "to", "drop">>,
      <<"role", "bob", "does", "not", "have", "permission">>,
      <<"permission", "was", "denied">>,
      <<"connection", "refused">> }

Ok == <<"ok">>
Outcomes == {Ok} \cup ErrorTexts

PasswordValues == {None, "", "secret"}
PromptInputs == {"", "typed"}

\* A flag that is never raised: the retry is never marked as used.
ElevationNotRecorded == FALSE

\* tried_elevation = True
ElevationRecorded == TRUE

\* A test that forgets the retry budget.
MayElevateAgain(tried_elevation, e) == IsPermissionFailure(e)

\* if not tried_elevation and any(k in msg for k in permission_indicators)
MayElevate(tried_elevation, e) == ~tried_elevation /\ IsPermissionFailure(e)

InitDispatcher ==
    /\ fs = FsIdle
    /\ loc = LocIdle
    /\ wf = WfIdle
    /\ rs = RsIdle
    /\ \E pw \in PasswordValues, env \in {None, "", "envpw"} :
          rc = [pc |-> "try", tried_elevation |-> FALSE, passwd |-> pw, passwd0 |-> pw,
                env_password |-> env, calls |-> 0, outcomes |-> <<>>, e |-> Ok,
                typed |-> None, raised |-> Ok]

\* await _dispatch(): one call of the operation, which returns or raises.
Dispatch ==
    /\ rc.pc = "try"
    /\ rc.calls < MaxDispatch
    /\ \E o \in Outcomes :
          rc' = [rc EXCEPT !.calls = @ + 1,
                           !.outcomes = Append(@, o),
                           !.e = o,
                           !.pc = IF o = Ok THEN "returned" ELSE "except"]
    /\ UNCHANGED <<fs, loc, wf, rs>>

\* except Exception as e, elevation branch with $PASSWORD set.
ElevateFromEnv ==
    /\ rc.pc = "except"
    /\ MayElevate(rc.tried_elevation, rc.e)
    /\ Truthy(rc.env_password)
    /\ rc' = [rc EXCEPT !.tried_elevation = ElevationRecorded,
                        !.passwd = rc.env_password,
                        !.pc = "try"]
    /\ UNCHANGED <<fs, loc, wf, rs>>

\* Elevation branch without $PASSWORD and without args.passwd: the prompt.
ElevateFromPrompt ==
    /\ rc.pc = "except"
    /\ MayElevate(rc.tried_elevation, rc.e)
    /\ ~Truthy(rc.env_password)
    /\ ~Truthy(rc.passwd)
    /\ \E input \in PromptInputs :
          rc' = [rc EXCEPT !.tried_elevation = ElevationRecorded,
                           !.passwd = input,
                           !.typed = input,
                           !.pc = IF Truthy(input) THEN "try" ELSE "raised",
                           !.raised = IF Truthy(input) THEN @ ELSE rc.e]
    /\ UNCHANGED <<fs, loc, wf, rs>>

\* Elevation branch without $PASSWORD when args.passwd is already set: the
\* loop continues with the password it has.
ElevateKeepPassword ==
    /\ rc.pc = "except"
    /\ MayElevate(rc.tried_elevation, rc.e)
    /\ ~Truthy(rc.env_password)
    /\ Truthy(rc.passwd)
    /\ rc' = [rc EXCEPT !.tried_elevation = ElevationRecorded, !.pc = "try"]
    /\ UNCHANGED <<fs, loc, wf, rs>>

\* The final raise: not permission-related, or the retry is used up.
Reraise ==
    /\ rc.pc = "except"
    /\ ~MayElevate(rc.tried_elevation, rc.e)
    /\ rc' = [rc EXCEPT !.pc = "raised", !.raised = rc.e]
    /\ UNCHANGED <<fs, loc, wf, rs>>

NextDispatcher ==
    \/ Dispatch
    \/ ElevateFromEnv
    \/ ElevateFromPrompt
    \/ ElevateKeepPassword
    \/ Reraise

SpecDispatcher == InitDispatcher /\ [][NextDispatcher]_vars

(***************************************************************************)
(* Properties of the dispatcher.                                           *)
(***************************************************************************)
RcFinished == rc.pc \in {"returned", "raised"}

\* Every call of the operation so far raised a permission-denied error.
AlwaysDenied ==
    /\ rc.outcomes # <<>>
    /\ \A i \in 1..Len(rc.outcomes) :
          rc.outcomes[i] # Ok /\ IsPermissionFailure(rc.outcomes[i])

\* C1 as stated: an operation that raises a permission-denied error on
\* every call is called exactly 2 times and the error then propagates,
\* whatever $PASSWORD and the prompt input are.
C1_ExactlyTwoCalls ==
    (rc.pc # "idle" /\ RcFinished /\ AlwaysDenied) => (rc.calls = 2 /\ rc.pc = "raised")

\* C1 amended: run_command never makes a third call; an operation that
\* raises a permission-denied error on every call is called 2 times and
\* the second error propagates, except that it is called once and the first
\* error propagates when $PASSWORD is unset or empty, no password is stored
\* and the operator enters an empty password at the prompt.
C1_RetryCap ==
    rc.pc # "idle" =>
        /\ rc.calls <= 2
        /\ (rc.pc = "try" /\ rc.calls > 0) => (rc.calls = 1 /\ rc.tried_elevation)
        /\ (RcFinished /\ AlwaysDenied) =>
              /\ rc.pc = "raised"
              /\ rc.raised = rc.outcomes[Len(rc.outcomes)]
              /\ \/ rc.calls = 2
                 \/ /\ rc.calls = 1
                    /\ ~Truthy(rc.env_password)
                    /\ ~Truthy(rc.passwd0)
                    /\ rc.typed = ""

\* C1 witness: two calls, both denied, the second error propagated.
C1_Witness ==
    /\ rc.pc = "raised"
    /\ AlwaysDenied
    /\ rc.calls = 2
    /\ rc.raised = rc.outcomes[2]

\* C2: an error that matches no permission signature, and any
\* permission-like error raised after the retry was used, is re-raised
\* with no further call of the operation and with the stored password
\* unchanged.
C2_OtherErrorsPropagate ==
    [][(rc.pc = "except" /\ (~IsPermissionFailure(rc.e) \/ rc.tried_elevation))
          => /\ rc'.pc = "raised"
             /\ rc'.raised = rc.e
             /\ rc'.calls = rc.calls
             /\ rc'.passwd = rc.passwd]_vars

\* C2 witness: the retry was used, the second call raised a permission
\* error again, and that error was re-raised after exactly two calls.
C2_Witness ==
    /\ rc.pc = "raised"
    /\ rc.tried_elevation
    /\ rc.calls = 2
    /\ IsPermissionFailure(rc.outcomes[2])
    /\ rc.raised = rc.outcomes[2]

(***************************************************************************)
(* The privileged workflows.  Names and typed input are sequences of       *)
(* characters.                                                             *)
(***************************************************************************)
Chars == {"s", "S", " "}

SeqsUpTo(n) == UNION { [1..k -> Chars] : k \in 0..n }

\* An option that was not given (argparse leaves None).
NoText == <<"None">>

\* Python truth of an optional text.
Given(t) == t \notin {NoText, <<>>}

NameValues == SeqsUpTo(MaxName) \ {<<>>}
TypedInputs == SeqsUpTo(MaxTyped)

RECURSIVE lstrip(_)
lstrip(t) == IF t # <<>> /\ Head(t) = " " THEN lstrip(Tail(t)) ELSE t

RECURSIVE rstrip(_)
rstrip(t) == IF t # <<>> /\ t[Len(t)] = " " THEN rstrip(SubSeq(t, 1, Len(t) - 1)) ELSE t

\* str.strip()
strip(t) == rstrip(lstrip(t))

LowerChar(c) == IF c = "S" THEN "s" ELSE IF c = "Y" THEN "y" ELSE c

\* str.lower()
lower(t) == [i \in 1..Len(t) |-> LowerChar(t[i])]

\* A comparison that ignores case.
SameIgnoringCase(confirmation, name) ==
    [i \in 1..Len(confirmation) |-> LowerChar(confirmation[i])]
        = [i \in 1..Len(name) |-> LowerChar(name[i])]

\* confirmation != args.database: the gate passes when the two are equal.
ConfirmationMatches(confirmation, name) == confirmation = name

\* The fields every workflow run carries.
WfStart(op, target) ==
    [op |-> op, pc |-> "enter", target |-> target, asked |-> FALSE, typed |-> <<>>,
     open |-> {}, opened |-> 0, stmts |-> <<>>, result |-> "running"]

WfReturn(w) == [w EXCEPT !.pc = "done", !.result = "returned"]

\* ---- drop_database ----
\* if not args.database: take the name from the resolved config, or return.
DropDatabaseEnter ==
    /\ wf.op = "drop_database" /\ wf.pc = "enter"
    /\ wf' = IF Given(wf.target) THEN [wf EXCEPT !.pc = "confirm"]
             ELSE IF Given(wf.cfg_database)
             THEN [wf EXCEPT !.pc = "confirm", !.target = wf.cfg_database]
             ELSE WfReturn(wf)
    /\ UNCHANGED <<fs, loc, rc, rs>>

\* confirmation = input().strip(); a mismatch returns.
DropDatabaseConfirm ==
    /\ wf.op = "drop_database" /\ wf.pc = "confirm"
    /\ \E typed \in TypedInputs :
          LET w == [wf EXCEPT !.asked = TRUE, !.typed = typed]
          IN  wf' = IF ConfirmationMatches(strip(typed), wf.target)
                    THEN [w EXCEPT !.pc = "connect"]
                    ELSE WfReturn(w)
    /\ UNCHANGED <<fs, loc, rc, rs>>

\* A drop_database that goes from the connect straight to DROP DATABASE.
DropDatabaseConnectThenDrop ==
    /\ wf.op = "drop_database" /\ wf.pc = "connect"
    /\ \/ wf' = [wf EXCEPT !.pc = "drop", !.open = @ \cup {"conn"}, !.opened = @ + 1]
       \/ wf' = WfReturn(wf)
    /\ UNCHANGED <<fs, loc, rc, rs>>

\* conn = await asyncpg.connect(...): a session, or an error caught by the
\* except clause of the function.
DropDatabaseConnect ==
    /\ wf.op = "drop_database" /\ wf.pc = "connect"
    /\ \/ wf' = [wf EXCEPT !.pc = "terminate", !.open = @ \cup {"conn"}, !.opened = @ + 1]
       \/ wf' = WfReturn(wf)
    /\ UNCHANGED <<fs, loc, rc, rs>>

\* await conn.execute(SELECT pg_terminate_backend ...)
DropDatabaseTerminate ==
    /\ wf.op = "drop_database" /\ wf.pc = "terminate"
    /\ LET w == [wf EXCEPT !.stmts = Append(@, "TERMINATE BACKENDS")]
       IN  \/ wf' = [w EXCEPT !.pc = "drop"]
           \/ wf' = WfReturn(w)
    /\ UNCHANGED <<fs, loc, rc, rs>>

\* await conn.execute(DROP DATABASE IF EXISTS ...)
DropDatabaseExecute ==
    /\ wf.op = "drop_database" /\ wf.pc = "drop"
    /\ LET w == [wf EXCEPT !.stmts = Append(@, "DROP DATABASE")]
       IN  \/ wf' = [w EXCEPT !.pc = "close"]
           \/ wf' = WfReturn(w)
    /\ UNCHANGED <<fs, loc, rc, rs>>

\* await conn.close(), the last statement of the try block.
DropDatabaseClose ==
    /\ wf.op = "drop_database" /\ wf.pc = "close"
    /\ wf' = WfReturn([wf EXCEPT !.open = @ \ {"conn"}])
    /\ UNCHANGED <<fs, loc, rc, rs>>

\* ---- drop_user ----
\* if not args.username: return.
DropUserEnter ==
    /\ wf.op = "drop_user" /\ wf.pc = "enter"
    /\ wf' = IF Given(wf.target) THEN [wf EXCEPT !.pc = "confirm"] ELSE WfReturn(wf)
    /\ UNCHANGED <<fs, loc, rc, rs>>

DropUserConfirm ==
    /\ wf.op = "drop_user" /\ wf.pc = "confirm"
    /\ \E typed \in TypedInputs :
          LET w == [wf EXCEPT !.asked = TRUE, !.typed = typed]
          IN  wf' = IF ConfirmationMatches(strip(typed), wf.target)
                    THEN [w EXCEPT !.pc = "connect"]
                    ELSE WfReturn(w)
    /\ UNCHANGED <<fs, loc, rc, rs>>

DropUserConnect ==
    /\ wf.op = "drop_user" /\ wf.pc = "connect"
    /\ \/ wf' = [wf EXCEPT !.pc = "drop", !.open = @ \cup {"conn"}, !.opened = @ + 1]
       \/ wf' = WfReturn(wf)
    /\ UNCHANGED <<fs, loc, rc, rs>>

\* await conn.execute(DROP USER IF EXISTS ...)
DropUserExecute ==
    /\ wf.op = "drop_user" /\ wf.pc = "drop"
    /\ LET w == [wf EXCEPT !.stmts = Append(@, "DROP USER")]
       IN  \/ wf' = [w EXCEPT !.pc = "close"]
           \/ wf' = WfReturn(w)
    /\ UNCHANGED <<fs, loc, rc, rs>>

DropUserClose ==
    /\ wf.op = "drop_user" /\ wf.pc = "close"
    /\ wf' = WfReturn([wf EXCEPT !.open = @ \ {"conn"}])
    /\ UNCHANGED <<fs, loc, rc, rs>>

\* ---- show_databases (the other show, describe and query commands have
\* the same try / except / finally shape) ----
\* conn = await get_connection(..., auto_settings=False): None when no
\* .env/.json/.yaml file is located, sys.exit(1) when the connection fails.
ShowConnect ==
    /\ wf.op = "show_databases" /\ wf.pc = "enter"
    /\ IF ~wf.env_file_found
       THEN wf' = [wf EXCEPT !.pc = "query_none"]
       ELSE \/ wf' = [wf EXCEPT !.pc = "query", !.open = @ \cup {"conn"}, !.opened = @ + 1]
            \/ wf' = [wf EXCEPT !.pc = "done", !.result = "exited"]
    /\ UNCHANGED <<fs, loc, rc, rs>>

\* results = await conn.fetch(...): a result or an error, both followed by
\* the finally clause.
ShowFetch ==
    /\ wf.op = "show_databases" /\ wf.pc = "query"
    /\ wf' = [wf EXCEPT !.pc = "finally", !.stmts = Append(@, "SELECT")]
    /\ UNCHANGED <<fs, loc, rc, rs>>

\* finally: await conn.close()
ShowClose ==
    /\ wf.op = "show_databases" /\ wf.pc = "finally"
    /\ wf' = WfReturn([wf EXCEPT !.open = @ \ {"conn"}])
    /\ UNCHANGED <<fs, loc, rc, rs>>

\* conn is None: conn.fetch raises inside the try, conn.close() raises in
\* the finally clause and the error leaves the function.
ShowWithoutSession ==
    /\ wf.op = "show_databases" /\ wf.pc = "query_none"
    /\ wf' = [wf EXCEPT !.pc = "done", !.result = "raised"]
    /\ UNCHANGED <<fs, loc, rc, rs>>

\* ---- create_user_db ----
\* The record parse_django_settings hands to the workflow, or None.
NoRecord == [present |-> FALSE, username |-> None, password |-> None, database |-> None]
ConfigRecords ==
    { NoRecord,
      [present |-> TRUE, username |-> "ru", password |-> "rp", database |-> "rd"],
      [present |-> TRUE, username |-> "ru", password |-> None, database |-> "rd"] }

\* args.CONFIG: nothing, NEW_USERNAME NEW_PASSWORD NEW_DB, or one path
\* (kind: a settings.py file, a directory holding one, anything else).
ConfigArgs ==
    { [len |-> 0, values |-> <<>>, kind |-> "none"],
      [len |-> 3, values |-> <<"cu", "cp", "cd">>, kind |-> "none"],
      [len |-> 1, values |-> <<"path">>, kind |-> "settings_file"],
      [len |-> 1, values |-> <<"path">>, kind |-> "other"] }

\* a or b
Or(a, b) == IF Truthy(a) THEN a ELSE b

\* username, password, database after the merge of positional arguments,
\* flags and the config record.
MergedCredentials(w, r) ==
    LET first ==
            IF w.CONFIG.len = 3
            THEN [username |-> w.CONFIG.values[1], password |-> w.CONFIG.values[2],
                  database |-> w.CONFIG.values[3]]
            ELSE IF ~Truthy(w.args_username) /\ ~Truthy(w.args_password)
                    /\ ~Truthy(w.args_database)
            THEN IF r.present
                 THEN [username |-> r.username, password |-> r.password,
                       database |-> r.database]
                 ELSE [username |-> None, password |-> None, database |-> None]
            ELSE IF w.CONFIG.len = 1 /\ r.present
            THEN [username |-> r.username, password |-> r.password,
                  database |-> r.database]
            ELSE [username |-> None, password |-> None, database |-> None]
    IN  [username |-> Or(Or(first.username, w.args_username),
                         IF r.present THEN r.username ELSE None),
         password |-> Or(Or(first.password, w.args_password),
                         IF r.present THEN r.password ELSE None),
         database |-> Or(Or(first.database, w.args_database),
                         IF r.present THEN r.database ELSE None)]

\* The records db_config may hold after the parsing block: with one
\* positional argument naming a settings.py and some flag given,
\* parse_django_settings is called again with that path.
ReparsedRecords(w) ==
    IF /\ w.CONFIG.len = 1 /\ w.CONFIG.kind = "settings_file"
       /\ (Truthy(w.args_username) \/ Truthy(w.args_password) \/ Truthy(w.args_database))
    THEN ConfigRecords
    ELSE {w.db_config}

\* The merge without the completeness test: start() runs in every case.
CreateEnterUnchecked ==
    /\ wf.op = "create_user_db" /\ wf.pc = "enter"
    /\ \E r \in ReparsedRecords(wf) :
          LET m == MergedCredentials(wf, r)
          IN  wf' = [wf EXCEPT !.db_config = r, !.username = m.username,
                               !.password = m.password, !.database = m.database,
                               !.pc = "super_connect"]
    /\ UNCHANGED <<fs, loc, rc, rs>>

\* The merge, then: if not all([username, password, database]): sys.exit(1)
CreateEnter ==
    /\ wf.op = "create_user_db" /\ wf.pc = "enter"
    /\ \E r \in ReparsedRecords(wf) :
          LET m == MergedCredentials(wf, r)
              w == [wf EXCEPT !.db_config = r, !.username = m.username,
                              !.password = m.password, !.database = m.database]
          IN  wf' = IF Truthy(m.username) /\ Truthy(m.password) /\ Truthy(m.database)
                    THEN [w EXCEPT !.pc = "super_connect"]
                    ELSE [w EXCEPT !.pc = "done", !.result = "exited"]
    /\ UNCHANGED <<fs, loc, rc, rs>>

\* start(): conn = await asyncpg.connect(database="postgres", ...)
CreateSuperConnect ==
    /\ wf.op = "create_user_db" /\ wf.pc = "super_connect"
    /\ \/ wf' = [wf EXCEPT !.pc = "create_user", !.open = @ \cup {"super"},
                           !.opened = @ + 1]
       \/ wf' = [wf EXCEPT !.pc = "invalid_password"]
       \/ wf' = [wf EXCEPT !.pc = "super_error"]
    /\ UNCHANGED <<fs, loc, rc, rs>>

\* A start() that gives up when the role already exists.
CreateUserAborts ==
    /\ wf.op = "create_user_db" /\ wf.pc = "create_user"
    /\ LET w == [wf EXCEPT !.stmts = Append(@, "CREATE USER")]
       IN  \/ wf' = [w EXCEPT !.pc = "alter_user"]
           \/ wf' = [w EXCEPT !.pc = "super_error", !.warned = TRUE]
           \/ wf' = [w EXCEPT !.pc = "super_error"]
    /\ UNCHANGED <<fs, loc, rc, rs>>

\* CREATE USER; DuplicateObjectError is reported and the flow goes on.
CreateUserStatement ==
    /\ wf.op = "create_user_db" /\ wf.pc = "create_user"
    /\ LET w == [wf EXCEPT !.stmts = Append(@, "CREATE USER")]
       IN  \/ wf' = [w EXCEPT !.pc = "alter_user"]
           \/ wf' = [w EXCEPT !.pc = "alter_user", !.warned = TRUE]
           \/ wf' = [w EXCEPT !.pc = "super_error"]
    /\ UNCHANGED <<fs, loc, rc, rs>>

\* ALTER USER ... WITH LOGIN CREATEDB REPLICATION BYPASSRLS
AlterUserStatement ==
    /\ wf.op = "create_user_db" /\ wf.pc = "alter_user"
    /\ LET w == [wf EXCEPT !.stmts = Append(@, "ALTER USER")]
       IN  \/ wf' = [w EXCEPT !.pc = "super_close"]
           \/ wf' = [w EXCEPT !.pc = "super_error"]
    /\ UNCHANGED <<fs, loc, rc, rs>>

\* await conn.close() at the end of start()
CreateSuperClose ==
    /\ wf.op = "create_user_db" /\ wf.pc = "super_close"
    /\ wf' = [wf EXCEPT !.pc = "new_connect", !.open = @ \ {"super"}]
    /\ UNCHANGED <<fs, loc, rc, rs>>

\* except asyncpg.InvalidPasswordError: one prompt, then return.
CreateInvalidPassword ==
    /\ wf.op = "create_user_db" /\ wf.pc = "invalid_password"
    /\ wf' = WfReturn([wf EXCEPT !.prompts = @ + 1])
    /\ UNCHANGED <<fs, loc, rc, rs>>

\* except Exception: with TRACEBACK set the trace is printed, otherwise the
\* password loop starts; the function returns after either.
CreateSuperError ==
    /\ wf.op = "create_user_db" /\ wf.pc = "super_error"
    /\ wf' = IF wf.traceback THEN WfReturn(wf) ELSE [wf EXCEPT !.pc = "password_loop"]
    /\ UNCHANGED <<fs, loc, rc, rs>>

\* A loop that connects again as superuser with the password entered.
CreatePasswordLoopReconnects ==
    /\ wf.op = "create_user_db" /\ wf.pc = "password_loop"
    /\ wf.prompts < MaxPrompts
    /\ \E input \in {"", "q", "pw"} :
          LET w == [wf EXCEPT !.prompts = @ + 1, !.args_password = input]
          IN  wf' = IF input = "q" THEN WfReturn(w)
                    ELSE IF input = "pw" THEN [w EXCEPT !.pc = "super_connect"]
                    ELSE w
    /\ UNCHANGED <<fs, loc, rc, rs>>

\* while 1: args.password = pwinput(...); an empty input asks again, any
\* other input (a quit word or a password) ends the loop and the function.
CreatePasswordLoop ==
    /\ wf.op = "create_user_db" /\ wf.pc = "password_loop"
    /\ wf.prompts < MaxPrompts
    /\ \E input \in {"", "q", "pw"} :
          LET w == [wf EXCEPT !.prompts = @ + 1, !.args_password = input]
          IN  wf' = IF Truthy(input) THEN WfReturn(w) ELSE w
    /\ UNCHANGED <<fs, loc, rc, rs>>

\* conn = await connect(database="template1", ...): None on any error.
CreateNewUserConnect ==
    /\ wf.op = "create_user_db" /\ wf.pc = "new_connect"
    /\ \/ wf' = [wf EXCEPT !.pc = "fetchval", !.open = @ \cup {"newuser"},
                           !.opened = @ + 1]
       \/ wf' = WfReturn(wf)
    /\ UNCHANGED <<fs, loc, rc, rs>>

\* result = await conn.fetchval(SELECT 1 FROM pg_database ...)
CreateFetchExisting ==
    /\ wf.op = "create_user_db" /\ wf.pc = "fetchval"
    /\ LET w == [wf EXCEPT !.stmts = Append(@, "SELECT 1")]
       IN  \/ wf' = [w EXCEPT !.pc = "ask_recreate"]
           \/ wf' = [w EXCEPT !.pc = "create_database"]
           \/ wf' = WfReturn(w)
    /\ UNCHANGED <<fs, loc, rc, rs>>

RecreateChoices == { <<"y">>, <<"Y">>, <<" ", "y">>, <<"n">>, <<>>, <<"y", "e", "s">> }

\* A prompt whose answer is not looked at: the database is always dropped.
CreateAskRecreateAnyInput ==
    /\ wf.op = "create_user_db" /\ wf.pc = "ask_recreate"
    /\ \E typed \in RecreateChoices :
          wf' = [wf EXCEPT !.asked = TRUE, !.typed = typed, !.pc = "recreate_drop"]
    /\ UNCHANGED <<fs, loc, rc, rs>>

\* choice = input().strip().lower(); if choice == "y"
CreateAskRecreate ==
    /\ wf.op = "create_user_db" /\ wf.pc = "ask_recreate"
    /\ \E typed \in RecreateChoices :
          wf' = [wf EXCEPT !.asked = TRUE, !.typed = typed,
                           !.pc = IF lower(strip(typed)) = <<"y">>
                                  THEN "recreate_drop" ELSE "new_close"]
    /\ UNCHANGED <<fs, loc, rc, rs>>

\* DROP DATABASE inside the inner try.
CreateRecreateDrop ==
    /\ wf.op = "create_user_db" /\ wf.pc = "recreate_drop"
    /\ LET w == [wf EXCEPT !.stmts = Append(@, "DROP DATABASE")]
       IN  \/ wf' = [w EXCEPT !.pc = "recreate_create"]
           \/ wf' = [w EXCEPT !.pc = "new_close"]
    /\ UNCHANGED <<fs, loc, rc, rs>>

\* CREATE DATABASE inside the inner try: an error is printed.
CreateRecreateCreate ==
    /\ wf.op = "create_user_db" /\ wf.pc = "recreate_create"
    /\ wf' = [wf EXCEPT !.stmts = Append(@, "CREATE DATABASE"), !.pc = "new_close"]
    /\ UNCHANGED <<fs, loc, rc, rs>>

\* CREATE DATABASE when none exists: "already exists" is reported, any
\* other error is raised again and caught by the outer except.
CreateDatabaseStatement ==
    /\ wf.op = "create_user_db" /\ wf.pc = "create_database"
    /\ LET w == [wf EXCEPT !.stmts = Append(@, "CREATE DATABASE")]
       IN  \/ wf' = [w EXCEPT !.pc = "new_close"]
           \/ wf' = WfReturn(w)
    /\ UNCHANGED <<fs, loc, rc, rs>>

\* await conn.close() at the end of the outer try.
CreateNewUserClose ==
    /\ wf.op = "create_user_db" /\ wf.pc = "new_close"
    /\ wf' = WfReturn([wf EXCEPT !.open = @ \ {"newuser"}])
    /\ UNCHANGED <<fs, loc, rc, rs>>

InitWorkflow ==
    /\ fs = FsIdle
    /\ loc = LocIdle
    /\ rc = RcIdle
    /\ rs = RsIdle
    /\ \/ \E db \in NameValues \cup {NoText}, cfgdb \in {NoText, <<"s">>} :
             wf = WfStart("drop_database", db) @@ [cfg_database |-> cfgdb]
       \/ \E u \in NameValues \cup {NoText} :
             wf = WfStart("drop_user", u)
       \/ \E found \in BOOLEAN :
             wf = WfStart("show_databases", NoText) @@ [env_file_found |-> found]
       \/ \E c \in ConfigArgs, fu \in {None, "fu"}, fp \in {None, "fp"}, fd \in {None, "fd"},
             r \in ConfigRecords, tb \in BOOLEAN :
             wf = WfStart("create_user_db", NoText) @@
                  [CONFIG |-> c, args_username |-> fu, args_password |-> fp,
                   args_database |-> fd, db_config |-> r, traceback |-> tb,
                   username |-> None, password |-> None, database |-> None,
                   warned |-> FALSE, prompts |-> 0]

NextWorkflow ==
    \/ DropDatabaseEnter
    \/ DropDatabaseConfirm
    \/ DropDatabaseConnect
    \/ DropDatabaseTerminate
    \/ DropDatabaseExecute
    \/ DropDatabaseClose
    \/ DropUserEnter
    \/ DropUserConfirm
    \/ DropUserConnect
    \/ DropUserExecute
    \/ DropUserClose
    \/ ShowConnect
    \/ ShowFetch
    \/ ShowClose
    \/ ShowWithoutSession
    \/ CreateEnter
    \/ CreateSuperConnect
    \/ CreateUserStatement
    \/ AlterUserStatement
    \/ CreateSuperClose
    \/ CreateInvalidPassword
    \/ CreateSuperError
    \/ CreatePasswordLoop
    \/ CreateNewUserConnect
    \/ CreateFetchExisting
    \/ CreateAskRecreate
    \/ CreateRecreateDrop
    \/ CreateRecreateCreate
    \/ CreateDatabaseStatement
    \/ CreateNewUserClose

SpecWorkflow == InitWorkflow /\ [][NextWorkflow]_vars

\* The statements of one coroutine run one after the other: a workflow that
\* can take a step takes it.
SpecWorkflowLive == SpecWorkflow /\ WF_vars(NextWorkflow)

(***************************************************************************)
(* Properties of the workflows.                                            *)
(***************************************************************************)
IsDrop == wf.pc # "idle" /\ wf.op \in {"drop_database", "drop_user"}

DropIssued ==
    \E i \in 1..Len(wf.stmts) : wf.stmts[i] \in {"DROP DATABASE", "DROP USER"}

\* C3 as stated: the drop is issued only if the typed confirmation equals
\* the target name exactly; for any other input the operation returns with
\* no session opened and no database call issued.
C3_ExactTypedInput ==
    (IsDrop /\ wf.asked /\ wf.typed # wf.target) =>
        (wf.opened = 0 /\ wf.stmts = <<>>)

\* C3 amended: the drop is issued only if the typed confirmation with its
\* leading and trailing whitespace removed equals the target name exactly
\* and case-sensitively; for any other input the operation returns with no
\* session opened and no database call issued.
C3_ConfirmationGate ==
    IsDrop =>
        /\ (wf.opened > 0 \/ wf.stmts # <<>>) =>
              (wf.asked /\ strip(wf.typed) = wf.target)
        /\ (wf.asked /\ strip(wf.typed) # wf.target) =>
              (wf.pc = "done" /\ wf.result = "returned")

\* C3 witness: the name was re-typed exactly and DROP DATABASE was issued.
C3_Witness ==
    /\ IsDrop /\ wf.op = "drop_database"
    /\ wf.typed = wf.target
    /\ DropIssued

\* C4 as stated: every session a workflow step opened is closed when the
\* step has returned, on every exit path.
C4_SessionsClosed ==
    (wf.pc = "done") => (wf.open = {})

(***************************************************************************)
(* parse_django_settings: the config normalizer and its memo.  Config      *)
(* values are sequences of words: "postgresql://u@h/d" is                  *)
(* <<"postgresql", "://", "u", "@", "h", "/", "d">>.                       *)
(***************************************************************************)
\* os.getcwd()
Cwd == <<1, 1>>

\* A file path: the directory and the file name.  NoPath is None.
NoPath == [dir |-> <<>>, file |-> "None"]
PathOf(d, file) == [dir |-> d, file |-> file]

\* os.path.isfile(path)
isfile(f, path) ==
    path # NoPath /\ path.dir \in f.dirs /\ path.file \in f.files[path.dir]

\* cfg.get(key) and cfg.get(key, default)
Get(cfg, key) == IF key \in DOMAIN cfg THEN cfg[key] ELSE NoText
GetOr(cfg, key, default) == IF key \in DOMAIN cfg THEN cfg[key] ELSE default

\* cfg.get(k1) or cfg.get(k2) or ... : the first true value, else the last.
RECURSIVE OrChainFrom(_, _, _)
OrChainFrom(cfg, keys, i) ==
    IF i = Len(keys) \/ Given(Get(cfg, keys[i])) THEN Get(cfg, keys[i])
    ELSE OrChainFrom(cfg, keys, i + 1)

OrChain(cfg, keys) == OrChainFrom(cfg, keys, 1)

\* The position of the first (last) occurrence of a word, 0 when absent.
IndexOf(t, w) ==
    IF \E i \in 1..Len(t) : t[i] = w
    THEN CHOOSE i \in 1..Len(t) : t[i] = w /\ \A j \in 1..(i - 1) : t[j] # w
    ELSE 0

LastIndexOf(t, w) ==
    IF \E i \in 1..Len(t) : t[i] = w
    THEN CHOOSE i \in 1..Len(t) : t[i] = w /\ \A j \in (i + 1)..Len(t) : t[j] # w
    ELSE 0

\* An absent URL component is None, a present one a text.
Optional(t) == IF t = <<>> THEN NoText ELSE t

\* parse_postgresql_url: urlparse, then the components.
parse_postgresql_url(connection_string) ==
    LET u == connection_string
        sep == IndexOf(u, "://")
        rest == SubSeq(u, sep + 1, Len(u))
        slash == IndexOf(rest, "/")
        netloc == IF sep = 0 THEN <<>>
                  ELSE IF slash = 0 THEN rest ELSE SubSeq(rest, 1, slash - 1)
        path == IF sep = 0 THEN u
                ELSE IF slash = 0 THEN <<>> ELSE SubSeq(rest, slash, Len(rest))
        at == LastIndexOf(netloc, "@")
        userinfo == SubSeq(netloc, 1, at - 1)
        hostport == SubSeq(netloc, at + 1, Len(netloc))
        ucolon == IndexOf(userinfo, ":")
        hcolon == IndexOf(hostport, ":")
    IN  [protocol |-> IF sep = 2 THEN <<LowerWord(u[1])>> ELSE <<>>,
         username |-> IF at = 0 THEN NoText
                      ELSE IF ucolon = 0 THEN userinfo
                      ELSE SubSeq(userinfo, 1, ucolon - 1),
         password |-> IF at = 0 \/ ucolon = 0 THEN NoText
                      ELSE SubSeq(userinfo, ucolon + 1, Len(userinfo)),
         host |-> Optional(Lower(IF hcolon = 0 THEN hostport
                                 ELSE SubSeq(hostport, 1, hcolon - 1))),
         port |-> IF hcolon = 0 THEN NoText
                  ELSE Optional(SubSeq(hostport, hcolon + 1, Len(hostport))),
         database |-> SubSeq(path, 2, Len(path))]

\* The validity check of the URL strategy.
UrlAccepted(config_db) ==
    /\ Given(config_db.host)
    /\ Given(config_db.username)
    /\ Given(config_db.database)
    /\ config_db.protocol \in { <<"postgresql">>, <<"postgres">> }

\* The ENGINE test of the framework-settings shape.
IsPostgresEngine(cfg) ==
    \/ Get(cfg, "ENGINE") = <<"django.db.backends.postgresql">>
    \/ Lower(GetOr(cfg, "ENGINE", <<>>)) \in { <<"postgresql">>, <<"postgres">>, <<"postgre">> }
    \/ Get(cfg, "ENGINE") = <<".postgresql">>

\* The five fields taken from a DATABASES entry.
FrameworkFields(cfg) ==
    [username |-> OrChain(cfg, <<"USER", "USERNAME", "user", "username">>),
     password |-> OrChain(cfg, <<"PASSWORD", "PASS", "password", "pass">>),
     database |-> OrChain(cfg, <<"NAME", "DB", "DB_NAME", "DBNAME",
                                 "name", "db", "db_name", "dbname">>),
     host |-> OrChain(cfg, <<"HOST", "HOSTNAME", "SERVER", "host", "hostname", "server">>),
     port |-> OrChain(cfg, <<"PORT", "port">>)]

UsernameAliases ==
    << "POSTGRESQL_USERNAME", "POSTGRESQL_USER", "POSTGRES_USERNAME", "POSTGRES_USER",
       "POSTGRE_USERNAME", "POSTGRE_USER",
       "postgresql_username", "postgresql_user", "postgres_username", "postgres_user",
       "postgre_username", "postgre_user",
       "DB_USER", "DB_USERNAME", "db_user", "db_username",
       "USER", "USERNAME", "user", "username" >>

PasswordAliases ==
    << "POSTGRESQL_PASSWORD", "POSTGRESQL_PASS", "POSTGRES_PASSWORD", "POSTGRES_PASS",
       "POSTGRE_PASSWORD", "POSTGRE_PASS",
       "postgresql_password", "postgresql_pass", "postgres_password", "postgres_pass",
       "postgre_password", "postgre_pass",
       "PASSWORD", "PASS", "pass", "password",
       "db_password", "DB_PASSWORD", "DB_PASS", "db_pass" >>

DatabaseAliases ==
    << "POSTGRESQL_DATABASE", "POSTGRESQL_DB_NAME", "POSTGRESQL_DBNAME", "POSTGRESQL_DB",
       "POSTGRESQL_NAME", "POSTGRES_DB_NAME", "POSTGRES_DBNAME", "POSTGRES_DB",
       "POSTGRES_NAME", "POSTGRE_DB_NAME", "POSTGRE_DBNAME", "POSTGRE_DB", "POSTGRE_NAME",
       "POSTGRE_DATABASE", "POSTGRES_DATABASE",
       "postgresql_database", "postgres_database", "postgre_database",
       "postgresql_db_name", "postgresql_dbname", "postgresql_db", "postgresql_name",
       "postgres_db_name", "postgres_dbname", "postgres_db", "postgres_name",
       "postgre_db_name", "postgre_dbname", "postgre_db", "postgre_name",
       "DB", "DB_NAME", "DBNAME", "db", "db_name", "dbname" >>

HostAliases ==
    << "POSTGRESQL_HOSTNAME", "POSTGRESQL_HOST", "POSTGRES_HOSTNAME", "POSTGRES_HOST",
       "POSTGRE_HOSTNAME", "POSTGRE_HOST",
       "postgresql_hostname", "postgresql_host", "postgres_hostname", "postgres_host",
       "postgre_hostname", "postgre_host",
       "db_host", "DB_HOST",
       "SERVER", "host", "hostname", "server" >>

PortAliases ==
    << "POSTGRESQL_PORT", "POSTGRES_PORT", "POSTGRE_PORT",
       "postgresql_port", "postgres_port", "postgre_port",
       "db_port", "DB_PORT",
       "PORT", "port" >>

\* An alias matrix that tries the generic user keys before the branded ones.
AliasFieldsGenericFirst(cfg) ==
    [username |-> OrChain(cfg, <<"USER", "USERNAME", "user", "username", "DB_USER",
                                 "POSTGRES_USER", "POSTGRESQL_USER">>),
     password |-> OrChain(cfg, PasswordAliases),
     database |-> OrChain(cfg, DatabaseAliases),
     host |-> OrChain(cfg, HostAliases),
     port |-> OrChain(cfg, PortAliases)]

\* The five fields taken from a flat config by the alias matrix.
AliasFields(cfg) ==
    [username |-> OrChain(cfg, UsernameAliases),
     password |-> OrChain(cfg, PasswordAliases),
     database |-> OrChain(cfg, DatabaseAliases),
     host |-> OrChain(cfg, HostAliases),
     port |-> OrChain(cfg, PortAliases)]

MarkerKeys ==
    << "DATABASE_URL", "DB_URL", "database_url", "db_url",
       "engine", "ENGINE", "TYPE", "type", "db_type" >>

\* The test of the marker loop for one key.
MarkerHolds(cfg, key) ==
    \/ Lower(GetOr(cfg, key, <<>>)) \in
          { <<"django.db.backends.postgresql">>, <<"postgresql">>, <<"psql">>,
            <<"postgres">>, <<"postgre">> }
    \/ Given(Get(cfg, "POSTGRESQL_PORT")) \/ Given(Get(cfg, "postgresql_port"))
    \/ Given(Get(cfg, "POSTGRES_PORT")) \/ Given(Get(cfg, "postgres_port"))
    \/ Given(Get(cfg, "POSTGRE_PORT")) \/ Given(Get(cfg, "postgre_port"))
    \/ Contains(Lower(GetOr(cfg, key, <<>>)), <<"postgres", "://">>)

\* ['database_url', 'DATABASE_URL', 'database_uri', 'DATABASE_URI'] filtered
\* by presence in the config.
check_db_url(cfg) ==
    SelectSeq(<<"database_url", "DATABASE_URL", "database_uri", "DATABASE_URI">>,
              LAMBDA k : k \in DOMAIN cfg)

NoFields ==
    [username |-> NoText, password |-> NoText, database |-> NoText,
     host |-> NoText, port |-> NoText]

\* The record of the URL strategy.
UrlFields(config_db) ==
    [username |-> config_db.username, password |-> config_db.password,
     database |-> config_db.database, host |-> config_db.host, port |-> config_db.port]

\* The flat shape after the URL strategy did not return: the marker loop.
AliasStrategy(cfg) ==
    IF \E n \in 1..Len(MarkerKeys) : MarkerHolds(cfg, MarkerKeys[n])
    THEN [via |-> "alias", fields |-> AliasFields(cfg)]
    ELSE [via |-> "none", fields |-> NoFields]

\* A normalizer without the URL strategy.
FlatAliasOnly(cfg, urls) == AliasStrategy(cfg)

\* The URL strategy for the URL keys present, then the alias matrix.
FlatStrategies(cfg, urls) ==
    IF urls # <<>> /\ UrlAccepted(parse_postgresql_url(cfg[urls[1]]))
    THEN [via |-> "url", fields |-> UrlFields(parse_postgresql_url(cfg[urls[1]]))]
    ELSE AliasStrategy(cfg)

\* A loop that goes on to the last eligible entry.
FrameworkStrategyLast(eligible) ==
    IF eligible # <<>>
    THEN [via |-> "framework", fields |-> FrameworkFields(eligible[Len(eligible)])]
    ELSE [via |-> "none", fields |-> NoFields]

\* The first DATABASES entry with a PostgreSQL engine, if any.
FrameworkStrategy(eligible) ==
    IF eligible # <<>>
    THEN [via |-> "framework", fields |-> FrameworkFields(eligible[1])]
    ELSE [via |-> "none", fields |-> NoFields]

\* What loading one artifact yields: the strategy that produced a record
\* ("framework", "url", "alias") or "none", and the record's fields.
LoadArtifact(path, content) ==
    IF content.raises THEN [via |-> "none", fields |-> NoFields]
    ELSE IF path.file = "settings.py"
    THEN FrameworkStrategy(SelectSeq(content.DATABASES, IsPostgresEngine))
    ELSE FlatStrategies(content.data, check_db_url(content.data))

\* The path of a locator result, None when nothing was found.
FoundPath(r, filename) == IF r.found THEN PathOf(r.dir, filename) ELSE NoPath

\* The current-directory check followed by the locator, for one file name.
LocateByName(f, max_depth_up, max_depth_down, filename) ==
    IF isfile(f, PathOf(Cwd, filename))
    THEN [path |-> PathOf(Cwd, filename), scans |-> 0]
    ELSE [path |-> FoundPath(find_settings_recursive(f, Cwd, max_depth_up, max_depth_down,
                                                     filename), filename),
          scans |-> 1]

\* find_any_config: the locator for ".env", ".json", ".yaml" in turn.
RECURSIVE find_any_config_from(_, _, _, _, _)
RECURSIVE find_any_config_next(_, _, _, _, _, _)
find_any_config_from(f, max_depth_up, max_depth_down, exts, scans) ==
    IF exts = <<>> THEN [path |-> NoPath, scans |-> scans]
    ELSE find_any_config_next(f, max_depth_up, max_depth_down, exts, scans,
             find_settings_recursive(f, Cwd, max_depth_up, max_depth_down, Head(exts)))

find_any_config_next(f, max_depth_up, max_depth_down, exts, scans, r) ==
    IF r.found THEN [path |-> PathOf(r.dir, Head(exts)), scans |-> scans + 1]
    ELSE find_any_config_from(f, max_depth_up, max_depth_down, Tail(exts), scans + 1)

find_any_config(f, max_depth_up, max_depth_down) ==
    find_any_config_from(f, max_depth_up, max_depth_down, <<".env", ".json", ".yaml">>, 0)

\* The last part of the path resolution, with the path p found so far and
\* the n locator runs made for it: os.path.abspath(None) throws (raised),
\* a path that is no file sends the search to find_any_config.
LocateFallback(f, max_depth_up, max_depth_down, p, n) ==
    IF p = NoPath THEN [path |-> NoPath, scans |-> n, raised |-> TRUE]
    ELSE IF ~isfile(f, p)
    THEN [find_any_config(f, max_depth_up, max_depth_down) EXCEPT !.scans = @ + n]
            @@ [raised |-> FALSE]
    ELSE [path |-> p, scans |-> n, raised |-> FALSE]

\* The second block: config.json is looked for when s1 found nothing.
LocateSecond(f, max_depth_up, max_depth_down, s1) ==
    IF s1.path = NoPath
    THEN [LocateByName(f, max_depth_up, max_depth_down, "config.json")
             EXCEPT !.scans = @ + s1.scans]
    ELSE s1

LocateThird(f, max_depth_up, max_depth_down, s2) ==
    LocateFallback(f, max_depth_up, max_depth_down, s2.path, s2.scans)

\* The path-resolution block of parse_django_settings.
LocateArtifact(f, settings_path, max_depth_up, max_depth_down) ==
    LocateThird(f, max_depth_up, max_depth_down,
        LocateSecond(f, max_depth_up, max_depth_down,
            IF settings_path = NoPath
            THEN LocateByName(f, max_depth_up, max_depth_down, "settings.py")
            ELSE [path |-> settings_path, scans |-> 0]))

\* The memo never answers: every call resolves again.
CacheNeverHit(cache) == FALSE

\* if _settings_cache is not None
CacheHit(cache) == cache.id # 0

\* _settings_cache = None
NoObject == [id |-> 0, via |-> "none", fields |-> NoFields]

\* The result of a call that returns None after `scans` locator runs.
ReturnsNone(cache, next_id, scans, loads, located) ==
    [ret |-> NoObject, cache |-> cache, writes |-> 0, scans |-> scans, loads |-> loads,
     located |-> located, next_id |-> next_id]

\* The result of a call that loaded an artifact: the framework and alias
\* strategies assign the record to the memo, the URL strategy returns its
\* record without assigning it.
ReturnsLoaded(cache, next_id, scans, got) ==
    IF got.via = "none" THEN ReturnsNone(cache, next_id, scans, 1, TRUE)
    ELSE [ret |-> [id |-> next_id, via |-> got.via, fields |-> got.fields],
          cache |-> IF got.via = "url" THEN cache
                    ELSE [id |-> next_id, via |-> got.via, fields |-> got.fields],
          writes |-> IF got.via = "url" THEN 0 ELSE 1,
          scans |-> scans, loads |-> 1, located |-> TRUE, next_id |-> next_id + 1]

\* parse_django_settings once the path resolution ended with `where`.
ResolveAt(f, cache, next_id, where) ==
    IF where.raised \/ ~isfile(f, where.path)
    THEN ReturnsNone(cache, next_id, where.scans, 0, FALSE)
    ELSE ReturnsLoaded(cache, next_id, where.scans,
             LoadArtifact(where.path, f.content[<<where.path.dir, where.path.file>>]))

\* A resolver that consults the memo only when no path was given: an
\* explicit path is always resolved and loaded.
parse_explicit_path_first(f, cache, next_id, settings_path, max_depth_up, max_depth_down) ==
    IF settings_path = NoPath /\ CacheHit(cache)
    THEN [ret |-> cache, cache |-> cache, writes |-> 0, scans |-> 0, loads |-> 0,
          located |-> FALSE, next_id |-> next_id]
    ELSE ResolveAt(f, cache, next_id,
                   LocateArtifact(f, settings_path, max_depth_up, max_depth_down))

\* One call of parse_django_settings.  ret is the object returned (NoObject
\* for None), cache the memo after the call, writes the number of
\* assignments to the memo, scans the number of locator runs, loads the
\* number of files read, located whether an artifact was found.
parse_django_settings(f, cache, next_id, settings_path, max_depth_up, max_depth_down) ==
    IF CacheHit(cache)
    THEN [ret |-> cache, cache |-> cache, writes |-> 0, scans |-> 0, loads |-> 0,
          located |-> FALSE, next_id |-> next_id]
    ELSE ResolveAt(f, cache, next_id,
                   LocateArtifact(f, settings_path, max_depth_up, max_depth_down))

(***************************************************************************)
(* The normalizer called repeatedly in one process, while files may        *)
(* appear on disk between calls.                                           *)
(***************************************************************************)
SettingsModules ==
    { [raises |-> FALSE,
       DATABASES |-> << [k \in {"ENGINE", "NAME"} |->
                            IF k = "ENGINE" THEN <<"django.db.backends.sqlite3">>
                            ELSE <<"lite">>],
                        [k \in {"ENGINE", "USER", "PASSWORD", "NAME", "HOST"} |->
                            CASE k = "ENGINE" -> <<"PostgreSQL">>
                              [] k = "USER" -> <<"ru">>
                              [] k = "PASSWORD" -> <<"rp">>
                              [] k = "NAME" -> <<"rd">>
                              [] k = "HOST" -> <<"rh">>] >>],
      [raises |-> FALSE,
       DATABASES |-> << [k \in {"ENGINE", "NAME"} |->
                            IF k = "ENGINE" THEN <<"django.db.backends.sqlite3">>
                            ELSE <<"lite">>] >>],
      [raises |-> TRUE, DATABASES |-> <<>>] }

FlatConfigs ==
    { [raises |-> FALSE,
       data |-> [k \in {"DATABASE_URL", "POSTGRES_USER"} |->
                    IF k = "DATABASE_URL"
                    THEN <<"postgresql", "://", "u", ":", "p", "@", "H", ":", "5432", "/", "d">>
                    ELSE <<"other">>]],
      [raises |-> FALSE,
       data |-> [k \in {"ENGINE", "POSTGRES_USER", "USER", "DB_NAME"} |->
                    CASE k = "ENGINE" -> <<"postgresql">>
                      [] k = "POSTGRES_USER" -> <<"alice">>
                      [] k = "USER" -> <<"bob">>
                      [] k = "DB_NAME" -> <<"shop">>]],
      [raises |-> FALSE,
       data |-> [k \in {"DATABASE_URL", "DB_USER"} |->
                    IF k = "DATABASE_URL" THEN <<"postgres", "://", "h", "/", "d">>
                    ELSE <<"carol">>]],
      [raises |-> FALSE,
       data |-> [k \in {"USER"} |-> <<"bob">>]] }

ContentsFor(file) == IF file = "settings.py" THEN SettingsModules ELSE FlatConfigs

\* Where a config file may lie: the current directory, its first child,
\* its parent.
FileDirs == { Cwd, <<1, 1, 1>>, <<1>> }
FileNames == { "settings.py", "config.json", ".env", "prod.env" }



\* The tree f with one more file.
WithFile(f, d, file, c) ==
    [f EXCEPT !.files[d] = @ \cup {file},
              !.content = [x \in (DOMAIN f.content) \cup {<<d, file>>} |->
                              IF x = <<d, file>> THEN c ELSE f.content[x]]]

FileCount(f) == Cardinality(DOMAIN f.content)

\* The arguments of a call: no path or the path given on the command line,
\* and the two depth bounds.
CallArgs ==
    [settings_path : {NoPath, PathOf(Cwd, "prod.env")},
     max_depth_up : 0..1, max_depth_down : 0..1]

NoCall ==
    [args |-> [settings_path |-> NoPath, max_depth_up |-> 0, max_depth_down |-> 0],
     ret |-> NoObject, scans |-> 0, loads |-> 0, located |-> FALSE, fsver |-> 0]

InitResolver ==
    /\ loc = LocIdle
    /\ rc = RcIdle
    /\ wf = WfIdle
    /\ \/ fs = FsIdle
       \/ \E d \in FileDirs, file \in FileNames : \E c \in ContentsFor(file) :
             fs = WithFile(FsIdle, d, file, c)
    /\ rs = [pc |-> "running", cache |-> NoObject, first |-> NoObject, writes |-> 0,
             next_id |-> 1, ncalls |-> 0, fsver |-> 0, last |-> NoCall, prev |-> NoCall,
             absent_before |-> FALSE]

\* One call of parse_django_settings(settings_path, max_depth_up, max_depth_down).
ParseDjangoSettings ==
    /\ rs.pc = "running"
    /\ rs.ncalls < MaxCalls
    /\ \E a \in CallArgs :
          LET r == parse_django_settings(fs, rs.cache, rs.next_id, a.settings_path,
                                         a.max_depth_up, a.max_depth_down)
          IN  rs' = [rs EXCEPT
                       !.cache = r.cache,
                       !.first = IF r.writes > 0 /\ rs.writes = 0 THEN r.cache ELSE @,
                       !.writes = @ + r.writes,
                       !.next_id = r.next_id,
                       !.ncalls = @ + 1,
                       !.prev = rs.last,
                       !.last = [args |-> a, ret |-> r.ret, scans |-> r.scans,
                                 loads |-> r.loads, located |-> r.located,
                                 fsver |-> rs.fsver],
                       !.absent_before =
                           @ \/ (rs.ncalls > 0 /\ rs.last.ret = NoObject
                                   /\ ~rs.last.located)]
    /\ UNCHANGED <<fs, loc, rc, wf>>

\* The files that may appear while the process runs: a settings.py that
\* resolves, or a flat config with a connection URL, in the current directory.
AppearingFiles ==
    { [file |-> "settings.py",
       content |-> CHOOSE c \in SettingsModules : ~c.raises /\ Len(c.DATABASES) = 2],
      [file |-> "config.json",
       content |-> CHOOSE c \in FlatConfigs : DOMAIN c.data = {"DATABASE_URL", "POSTGRES_USER"}] }

\* A configuration file appears on disk between two calls.
FileAppears ==
    /\ rs.pc = "running"
    /\ FileCount(fs) < MaxFiles
    /\ \E a \in AppearingFiles :
          /\ a.file \notin fs.files[Cwd]
          /\ fs' = WithFile(fs, Cwd, a.file, a.content)
    /\ rs' = [rs EXCEPT !.fsver = @ + 1]
    /\ UNCHANGED <<loc, rc, wf>>

NextResolver ==
    \/ ParseDjangoSettings
    \/ FileAppears

SpecResolver == InitResolver /\ [][NextResolver]_vars

(***************************************************************************)
(* Properties of the normalizer.                                           *)
(***************************************************************************)
Resolving == rs.pc = "running"

\* C5 as stated: once a call found no artifact and returned absent, every
\* later call returns absent without scanning the filesystem again, even if
\* a configuration file has appeared in the meantime.
C5_AbsentMemoized ==
    (Resolving /\ rs.absent_before) =>
        (rs.last.ret = NoObject /\ rs.last.scans = 0 /\ rs.last.loads = 0)

\* C6 as stated: when a call returns a record, by any of the three
\* strategies, a second call with identical inputs returns the identical
\* object and performs no scan and no load.
C6_SecondCallCached ==
    (Resolving /\ rs.ncalls >= 2 /\ rs.prev.ret # NoObject
       /\ rs.last.args = rs.prev.args /\ rs.last.fsver = rs.prev.fsver) =>
        (rs.last.ret = rs.prev.ret /\ rs.last.scans = 0 /\ rs.last.loads = 0)

\* C7: the memo is assigned at most once in a process, and once it holds a
\* record its value is the one first assigned, whatever calls follow.
C7_MemoWrittenOnce ==
    Resolving =>
        /\ rs.writes <= 1
        /\ rs.writes = 0 => rs.cache = NoObject
        /\ rs.writes >= 1 => (rs.cache # NoObject /\ rs.cache = rs.first)

\* C7 witness: the memo was set by the first call, a file appeared and a
\* second call with other arguments left the memo as it was.
C7_Witness ==
    /\ Resolving
    /\ rs.ncalls = 2
    /\ rs.prev.ret # NoObject
    /\ rs.cache = rs.prev.ret
    /\ rs.last.args # rs.prev.args
    /\ rs.last.fsver > rs.prev.fsver

\* C29: once the memo holds a record, every later call of
\* parse_django_settings returns that record, whatever path and depth bounds
\* it is given: the call loads no file, runs no scan and leaves the memo as
\* it was.
C29_MemoIgnoresArguments ==
    [][(rs.pc = "running" /\ rs.cache # NoObject /\ rs'.ncalls = rs.ncalls + 1) =>
          /\ rs'.last.ret = rs.cache
          /\ rs'.last.scans = 0
          /\ rs'.last.loads = 0
          /\ rs'.cache = rs.cache]_vars

\* C29 witness: the first call set the memo from a settings.py; the second
\* call named prod.env, which exists and would load, with another upward
\* bound, and got the memo's record without a load or a scan.
C29_Witness ==
    /\ Resolving
    /\ rs.ncalls = 2
    /\ rs.prev.args.settings_path = NoPath
    /\ rs.prev.ret # NoObject /\ rs.prev.ret.via = "framework"
    /\ rs.cache = rs.prev.ret
    /\ rs.last.args.settings_path = PathOf(Cwd, "prod.env")
    /\ "prod.env" \in fs.files[Cwd]
    /\ rs.last.args.max_depth_up # rs.prev.args.max_depth_up
    /\ rs.last.ret = rs.prev.ret
    /\ rs.last.loads = 0 /\ rs.last.scans = 0

\* No directory of the tree holds a settings.py or a config.json.
NoNamedArtifact ==
    \A d \in fs.dirs : fs.files[d] \cap {"settings.py", "config.json"} = {}

\* C19 as stated: a first call without explicit path, in a tree with no
\* settings.py and no config.json but with a .env file in the current
\* directory, runs the multi-filename locator after the two named searches
\* and loads the file it finds.
C19_FallbackToAnyConfig ==
    (/\ Resolving
     /\ rs.ncalls = 1
     /\ rs.last.fsver = rs.fsver
     /\ rs.last.args.settings_path = NoPath
     /\ NoNamedArtifact
     /\ ".env" \in fs.files[Cwd])
    => (rs.last.located /\ rs.last.loads = 1 /\ rs.last.scans > 2)

(***************************************************************************)
(* Properties of the locator.                                              *)
(***************************************************************************)
\* Levels of descent from the search root r to the directory d.
DepthFrom(r, d) == Len(d) - Len(r)

HoldsTarget(d) == TargetName \in fs.files[d]

\* The directories from r down to d, both included.
PathDirs(r, d) == { x \in fs.dirs : Below(x, r) /\ Below(d, x) }

\* Every directory below r on the way to d has a name the scan descends
\* into, and every directory above d on that way can be listed.
CleanPath(r, d) ==
    \A x \in PathDirs(r, d) :
        /\ x # r => ~Excluded(fs.name[x])
        /\ x # d => x \in fs.listable

\* The directory the returned file was found from: the last search root.
HitRoot == loc.out.roots[Len(loc.out.roots)]

NamedAsPruned(name) ==
    \/ name = <<"node_modules">>
    \/ name = <<"venv">>
    \/ name = <<"__pycache__">>
    \/ \E i \in 1..Len(name) : name[i] = "-env"

C10_UpwardBound ==
    loc.pc = "done" =>
        /\ Len(loc.out.roots) <= loc.max_depth_up + 1
        /\ loc.out.roots[1] = loc.start_path
        /\ \A i \in 2..Len(loc.out.roots) : loc.out.roots[i] = Parent(loc.out.roots[i - 1])
        /\ \A i \in 1..(Len(loc.out.roots) - 1) :
              ~search_down(fs, TargetName, loc.max_depth_down, loc.out.roots[i], 0).found

(***************************************************************************)
(* The strategies of the normalizer applied to one loaded artifact: a flat *)
(* config (the keys of an environment-style file) or one DATABASES entry   *)
(* of a settings module.                                                   *)
(***************************************************************************)
\* A key that is not in the config.
Absent == <<"absent">>

\* The config with the keys of pairs whose value is not Absent.
MakeCfg(pairs) ==
    [k \in { pairs[i][1] : i \in { j \in 1..Len(pairs) : pairs[j][2] # Absent } } |->
        pairs[CHOOSE i \in 1..Len(pairs) : pairs[i][1] = k][2]]

\* postgresql://u:p@H:5432/d, postgres://v@g/e and a URL of another database.
FullUrl == <<"postgresql", "://", "u", ":", "p", "@", "H", ":", "5432", "/", "d">>
BareUrl == <<"postgres", "://", "v", "@", "g", "/", "e">>
OtherUrl == <<"mysql", "://", "u", "@", "h", "/", "d">>

\* The flat configs: what load_env may return for a file.
FlatCfgs ==
    { MakeCfg(<< <<"database_url", a>>, <<"DATABASE_URL", b>>, <<"ENGINE", e>>,
                 <<"POSTGRESQL_USER", u1>>, <<"POSTGRES_USER", u2>>, <<"DB_USER", u3>>,
                 <<"USER", u4>>, <<"DB_PASSWORD", pw>>, <<"DB_HOST", h>>,
                 <<"DB_NAME", db>>, <<"DB_PORT", pt>> >>) :
        a \in {Absent, OtherUrl, BareUrl},
        b \in {Absent, FullUrl, OtherUrl},
        e \in {Absent, <<"postgresql">>},
        u1 \in {Absent, <<"zed">>},
        u2 \in {Absent, <<>>, <<"alice">>, <<"other">>},
        u3 \in {Absent, <<"carol">>},
        u4 \in {Absent, <<"bob">>},
        pw \in {Absent, <<"dp">>},
        h \in {Absent, <<"dh">>},
        db \in {Absent, <<"dd">>},
        pt \in {Absent, <<"6543">>} }

\* The DATABASES entries of a settings module.
FrameworkCfgs ==
    { MakeCfg(<< <<"ENGINE", e>>, <<"USER", u>>, <<"USERNAME", un>>,
                 <<"PASSWORD", pw>>, <<"NAME", n>>, <<"HOST", h>>, <<"PORT", pt>> >>) :
        e \in {<<"django.db.backends.postgresql">>, <<"django.db.backends.sqlite3">>},
        u \in {Absent, <<>>, <<"ru">>},
        un \in {Absent, <<"rn">>},
        pw \in {Absent, <<"rp">>},
        n \in {Absent, <<"rd">>},
        h \in {Absent, <<>>, <<"rh">>},
        pt \in {Absent, <<"5432">>} }

InitNormalizer ==
    /\ fs = FsIdle
    /\ loc = LocIdle
    /\ rc = RcIdle
    /\ wf = WfIdle
    /\ \/ \E c \in FlatCfgs : rs = [pc |-> "loaded", shape |-> "flat", cfg |-> c]
       \/ \E c \in FrameworkCfgs : rs = [pc |-> "loaded", shape |-> "framework", cfg |-> c]

\* The else branch of parse_django_settings for the loaded flat config.
NormalizeFlat ==
    /\ rs.pc = "loaded"
    /\ rs.shape = "flat"
    /\ rs' = [pc |-> "normalized", shape |-> rs.shape, cfg |-> rs.cfg,
              out |-> FlatStrategies(rs.cfg, check_db_url(rs.cfg))]
    /\ UNCHANGED <<fs, loc, rc, wf>>

\* The settings.py branch of parse_django_settings for a module with the
\* one DATABASES entry.
NormalizeFramework ==
    /\ rs.pc = "loaded"
    /\ rs.shape = "framework"
    /\ rs' = [pc |-> "normalized", shape |-> rs.shape, cfg |-> rs.cfg,
              out |-> FrameworkStrategy(SelectSeq(<<rs.cfg>>, IsPostgresEngine))]
    /\ UNCHANGED <<fs, loc, rc, wf>>

NextNormalizer ==
    \/ NormalizeFlat
    \/ NormalizeFramework

SpecNormalizer == InitNormalizer /\ [][NextNormalizer]_vars

(***************************************************************************)
(* Properties of the strategies.                                           *)
(***************************************************************************)
NormalizedFlat == rs.pc = "normalized" /\ rs.shape = "flat"

\* The value of the first URL key present, in the order the code tries
\* them: database_url, DATABASE_URL.  Absent when the config has neither.
FirstUrl ==
    IF "database_url" \in DOMAIN rs.cfg THEN rs.cfg["database_url"]
    ELSE IF "DATABASE_URL" \in DOMAIN rs.cfg THEN rs.cfg["DATABASE_URL"]
    ELSE Absent

\* What the two PostgreSQL URLs of the model spell out.
ComponentsOf(url) ==
    IF url = FullUrl
    THEN [username |-> <<"u">>, password |-> <<"p">>, database |-> <<"d">>,
          host |-> <<"h">>, port |-> <<"5432">>]
    ELSE [username |-> <<"v">>, password |-> NoText, database |-> <<"e">>,
          host |-> <<"g">>, port |-> NoText]

\* C11 as stated: when the config holds a URL key whose URL is a valid
\* PostgreSQL URL, the record's five fields are the ones spelled in such a
\* URL.
C11_AnyValidUrlKey ==
    (NormalizedFlat
       /\ \E k \in {"database_url", "DATABASE_URL"} \cap DOMAIN rs.cfg :
              rs.cfg[k] \in {FullUrl, BareUrl})
    => \E k \in {"database_url", "DATABASE_URL"} \cap DOMAIN rs.cfg :
          /\ rs.cfg[k] \in {FullUrl, BareUrl}
          /\ rs.out.via = "url"
          /\ rs.out.fields = ComponentsOf(rs.cfg[k])

\* C11 amended: when the URL key the normalizer consults, the first one
\* present of database_url, DATABASE_URL, database_uri, DATABASE_URI,
\* carries a valid PostgreSQL URL, the record's username, password, host,
\* port and database are the ones spelled in that URL, whatever discrete
\* keys (POSTGRES_USER, DB_PASSWORD, DB_HOST, DB_NAME, DB_PORT, ...) the
\* config also holds.
C11_UrlFirst ==
    (NormalizedFlat /\ FirstUrl \in {FullUrl, BareUrl}) =>
        /\ rs.out.via = "url"
        /\ rs.out.fields = ComponentsOf(FirstUrl)

\* C11 witness: DATABASE_URL=postgresql://u:p@H:5432/d together with
\* POSTGRES_USER=other and a discrete host, and the record names u and h.
C11_Witness ==
    /\ NormalizedFlat
    /\ DOMAIN rs.cfg = {"DATABASE_URL", "POSTGRES_USER", "DB_HOST"}
    /\ rs.cfg["DATABASE_URL"] = FullUrl
    /\ rs.cfg["POSTGRES_USER"] = <<"other">>
    /\ rs.out.fields.username = <<"u">>
    /\ rs.out.fields.host = <<"h">>

\* C12: for a flat config with POSTGRES_USER=alice and USER=bob and no
\* PostgreSQL-branded user key listed before POSTGRES_USER, the record the
\* alias matrix resolves has username alice.
C12_BrandAliasWins ==
    (/\ NormalizedFlat
     /\ rs.out.via = "alias"
     /\ {"POSTGRES_USER", "USER"} \subseteq DOMAIN rs.cfg
     /\ rs.cfg["POSTGRES_USER"] = <<"alice">>
     /\ rs.cfg["USER"] = <<"bob">>
     /\ DOMAIN rs.cfg \cap {"POSTGRESQL_USERNAME", "POSTGRESQL_USER", "POSTGRES_USERNAME"} = {})
    => rs.out.fields.username = <<"alice">>

\* C12 witness: ENGINE=postgresql, POSTGRES_USER=alice, USER=bob resolved
\* by the alias matrix.
C12_Witness ==
    /\ NormalizedFlat
    /\ rs.out.via = "alias"
    /\ DOMAIN rs.cfg = {"ENGINE", "POSTGRES_USER", "USER"}
    /\ rs.cfg["POSTGRES_USER"] = <<"alice">>
    /\ rs.cfg["USER"] = <<"bob">>
    /\ rs.out.fields.username = <<"alice">>

\* The value of the first key of the list that is present in the config,
\* None when none is.
RECURSIVE FirstPresent(_, _)
FirstPresent(cfg, keys) ==
    IF keys = <<>> THEN NoText
    ELSE IF Head(keys) \in DOMAIN cfg THEN cfg[Head(keys)]
    ELSE FirstPresent(cfg, Tail(keys))

\* C13 as stated: each of the five fields holds the value of the first
\* alias key present in the config, even when that value is empty.
C13_FirstPresentWins ==
    /\ (NormalizedFlat /\ rs.out.via = "alias") =>
          /\ rs.out.fields.username = FirstPresent(rs.cfg, UsernameAliases)
          /\ rs.out.fields.password = FirstPresent(rs.cfg, PasswordAliases)
          /\ rs.out.fields.database = FirstPresent(rs.cfg, DatabaseAliases)
          /\ rs.out.fields.host = FirstPresent(rs.cfg, HostAliases)
          /\ rs.out.fields.port = FirstPresent(rs.cfg, PortAliases)
    /\ (rs.pc = "normalized" /\ rs.shape = "framework" /\ rs.out.via = "framework") =>
          /\ rs.out.fields.username =
                FirstPresent(rs.cfg, <<"USER", "USERNAME", "user", "username">>)
          /\ rs.out.fields.host =
                FirstPresent(rs.cfg, <<"HOST", "HOSTNAME", "SERVER", "host", "hostname",
                                       "server">>)

(***************************************************************************)
(* Properties of create_user_db.                                           *)
(***************************************************************************)
\* CREATE USER was answered with "role already exists" and reported.
DuplicateReported == wf.pc # "idle" /\ wf.op = "create_user_db" /\ wf.warned

\* C14: when CREATE USER fails because the role exists, the workflow
\* reports it and goes on, not to a return: ALTER USER is then issued on the
\* superuser session, and once the new-user session is open the
\* existing-database check is issued on it.
C14_DuplicateUserProceeds ==
    /\ [][(wf.op = "create_user_db" /\ wf.pc = "create_user" /\ wf'.warned)
             => (wf'.pc = "alter_user" /\ "super" \in wf'.open)]_vars
    /\ [](DuplicateReported => wf.pc # "create_user")
    /\ (DuplicateReported /\ wf.pc = "alter_user")
          ~> (DuplicateReported /\ wf.stmts = <<"CREATE USER", "ALTER USER">>)
    /\ [](DuplicateReported /\ wf.pc = "alter_user" => "super" \in wf.open)
    /\ (DuplicateReported /\ wf.pc = "fetchval")
          ~> (DuplicateReported
                /\ Len(wf.stmts) >= 3
                /\ SubSeq(wf.stmts, 1, 3) = <<"CREATE USER", "ALTER USER", "SELECT 1">>)
    /\ [](DuplicateReported /\ wf.pc = "fetchval" => "newuser" \in wf.open)

\* C14 witness: the role existed, the grant ran and the database check ran.
C14_Witness ==
    /\ DuplicateReported
    /\ Len(wf.stmts) >= 3
    /\ SubSeq(wf.stmts, 1, 3) = <<"CREATE USER", "ALTER USER", "SELECT 1">>

(***************************************************************************)
(* One call of parse_django_settings followed statement by statement, with *)
(* the exceptions its steps can raise and the two handlers around them.    *)
(***************************************************************************)
\* Exception classes the steps raise; all are subclasses of Exception.
ExceptionClasses ==
    { "TypeError", "OSError", "ValueError", "AttributeError", "SyntaxError", "ImportError" }

NoException == "none"

\* A handler that catches the filesystem errors only.
HandlerCatchesOSErrorOnly(exc) == exc = "OSError"

\* except Exception as e
HandlerCatches(exc) == exc \in ExceptionClasses

\* The artifacts of this development: a few flat configs and DATABASES entries.
ContainedFlatCfgs ==
    { c \in FlatCfgs : DOMAIN c \subseteq {"DATABASE_URL", "ENGINE", "POSTGRES_USER"} }
ContainedFrameworkCfgs ==
    { c \in FrameworkCfgs : DOMAIN c \subseteq {"ENGINE", "USER"} }

AbsentResult == [via |-> "none", fields |-> NoFields]

InitContainment ==
    /\ fs = FsIdle
    /\ loc = LocIdle
    /\ rc = RcIdle
    /\ wf = WfIdle
    /\ \E shape \in {"flat", "framework"} :
       \E c \in (IF shape = "flat" THEN ContainedFlatCfgs ELSE ContainedFrameworkCfgs) :
          rs = [pc |-> "call", shape |-> shape, cfg |-> c, exc |-> NoException,
                exc_at |-> "none", ret |-> AbsentResult]

\* The exception exc raised at step `at` inside the outer try.
Raise(r, at, exc) == [r EXCEPT !.pc = "handler", !.exc = exc, !.exc_at = at]

\* return None / return the record
Return(r, result) == [r EXCEPT !.pc = "returned", !.ret = result]

\* The cache test misses and the try block is entered.
PdsEnter ==
    /\ rs.pc = "call"
    /\ rs' = [rs EXCEPT !.pc = "locate"]
    /\ UNCHANGED <<fs, loc, rc, wf>>

\* The path resolution: a file is found; nothing is found and
\* os.path.abspath(None) raises TypeError; the locator compares the depth
\* with a bound given as text and raises TypeError; or an explicit path is
\* no file, find_any_config finds nothing and None is returned.
PdsLocate ==
    /\ rs.pc = "locate"
    /\ \/ rs' = [rs EXCEPT !.pc = "load"]
       \/ rs' = Raise(rs, "locate", "TypeError")
       \/ rs' = Return(rs, AbsentResult)
    /\ UNCHANGED <<fs, loc, rc, wf>>

\* open(final_path).read(), then load_settings_from_path or load_env.
PdsLoad ==
    /\ rs.pc = "load"
    /\ \/ rs' = [rs EXCEPT !.pc = IF rs.shape = "framework" THEN "framework" ELSE "url"]
       \/ \E exc \in {"OSError", "SyntaxError", "ImportError"} : rs' = Raise(rs, "load", exc)
    /\ UNCHANGED <<fs, loc, rc, wf>>

\* The DATABASES loop; an entry that is no dict raises AttributeError.
PdsFramework ==
    /\ rs.pc = "framework"
    /\ \/ rs' = Return(rs, FrameworkStrategy(SelectSeq(<<rs.cfg>>, IsPostgresEngine)))
       \/ rs' = Raise(rs, "framework", "AttributeError")
    /\ UNCHANGED <<fs, loc, rc, wf>>

\* The inner try: the URL strategy.  An exception in it (urlparse's port
\* that is no number raises ValueError) is caught by the inner handler and
\* the marker loop follows.
PdsUrl ==
    /\ rs.pc = "url"
    /\ \/ rs' = IF check_db_url(rs.cfg) # <<>>
                   /\ UrlAccepted(parse_postgresql_url(rs.cfg[check_db_url(rs.cfg)[1]]))
                THEN Return(rs, FlatStrategies(rs.cfg, check_db_url(rs.cfg)))
                ELSE [rs EXCEPT !.pc = "alias"]
       \/ /\ check_db_url(rs.cfg) # <<>>
          /\ rs' = [rs EXCEPT !.pc = "alias", !.exc = "ValueError", !.exc_at = "url"]
    /\ UNCHANGED <<fs, loc, rc, wf>>

\* The marker loop and the alias matrix; a value that is no text raises
\* AttributeError at .lower().
PdsAlias ==
    /\ rs.pc = "alias"
    /\ \/ rs' = Return(rs, AliasStrategy(rs.cfg))
       \/ rs' = Raise(rs, "alias", "AttributeError")
    /\ UNCHANGED <<fs, loc, rc, wf>>

\* except Exception as e: log, fall out of the try, return None.
PdsHandler ==
    /\ rs.pc = "handler"
    /\ rs' = IF HandlerCatches(rs.exc) THEN Return(rs, AbsentResult)
             ELSE [rs EXCEPT !.pc = "propagated"]
    /\ UNCHANGED <<fs, loc, rc, wf>>

NextContainment ==
    \/ PdsEnter
    \/ PdsLocate
    \/ PdsLoad
    \/ PdsFramework
    \/ PdsUrl
    \/ PdsAlias
    \/ PdsHandler

SpecContainment == InitContainment /\ [][NextContainment]_vars

\* The call has ended, by a return or by an exception leaving it.
PdsEnded == rs.pc \in {"returned", "propagated"}

DefaultHost == "127.0.0.1"
DefaultPort == "5432"
DefaultUser == "postgres"

\* db_config: None or the record of parse_django_settings.
NoDbConfig == [present |-> FALSE, host |-> None, port |-> None, username |-> None,
               password |-> None]
DbConfigs ==
    { NoDbConfig,
      [present |-> TRUE, host |-> "rh", port |-> "rpt", username |-> "ru", password |-> "rp"],
      [present |-> TRUE, host |-> "rh", port |-> None, username |-> "ru", password |-> None] }

\* The .env/.json/.yaml file get_connection looks for itself: not found, or
\* found with or without an engine key of PostgreSQL and with some keys.
NoEnvFile == [found |-> FALSE, engine |-> FALSE, HOST |-> None, PORT |-> None,
              USER |-> None, PASSWORD |-> None]
EnvFiles ==
    { NoEnvFile,
      [found |-> TRUE, engine |-> FALSE, HOST |-> "fh", PORT |-> "fpt", USER |-> "fu",
       PASSWORD |-> "fp"],
      [found |-> TRUE, engine |-> TRUE, HOST |-> "fh", PORT |-> "fpt", USER |-> "fu",
       PASSWORD |-> "fp"],
      [found |-> TRUE, engine |-> TRUE, HOST |-> None, PORT |-> None, USER |-> "fu",
       PASSWORD |-> None] }

\* os.environ: each of HOST, PORT, USER, PASSWORD unset or set.
Environments ==
    [HOST : {None, "eh"}, PORT : {None, "ept"}, USER : {None, "eu"},
     PASSWORD : {None, "epw"}]

NoSession == [opened |-> FALSE, host |-> None, port |-> None, user |-> None,
              password |-> None]

InitConnection ==
    /\ fs = FsIdle
    /\ loc = LocIdle
    /\ rc = RcIdle
    /\ rs = RsIdle
    /\ \E command \in {"show", "drop", "create"}, passwd \in {None, "clipw"},
          db_config \in DbConfigs, env \in Environments, file \in EnvFiles,
          ini_host \in {None, "ih"} :
          /\ ini_host # None => command = "create"
          /\ wf = [pc |-> "main", command |-> command,
                   hostname |-> DefaultHost, port |-> DefaultPort, user |-> DefaultUser,
                   passwd |-> passwd, cli_passwd |-> passwd,
                   db_config |-> db_config, env |-> env, file |-> file,
                   ini_host |-> ini_host, session |-> NoSession, result |-> "running"]

\* ensure_superuser_password: for create and drop, an empty args.passwd is
\* filled from the record, else from $PASSWORD, else from the prompt.
ensure_superuser_password(command, passwd, db_config, env) ==
    IF command \in {"create", "drop"} /\ ~Truthy(passwd)
    THEN IF db_config.present /\ Truthy(db_config.password) THEN db_config.password
         ELSE IF Truthy(env.PASSWORD) THEN env.PASSWORD
         ELSE "typed"
    ELSE passwd

\* main: the record's host and port replace args.hostname and args.port,
\* then ensure_superuser_password.
Main ==
    /\ wf.pc = "main"
    /\ wf' = [wf EXCEPT
                !.pc = "dispatch",
                !.hostname = IF wf.db_config.present THEN Or(wf.db_config.host, @) ELSE @,
                !.port = IF wf.db_config.present /\ Truthy(wf.db_config.port)
                         THEN wf.db_config.port ELSE @,
                !.passwd = ensure_superuser_password(wf.command, @, wf.db_config, wf.env)]
    /\ UNCHANGED <<fs, loc, rc, rs>>

\* get_db_config_or_args(args)
get_db_config_or_args(w) ==
    IF w.db_config.present
    THEN [host |-> Or(w.db_config.host, w.hostname), port |-> Or(w.db_config.port, w.port),
          user |-> Or(w.db_config.username, w.user),
          password |-> Or(w.passwd, w.db_config.password)]
    ELSE [host |-> w.hostname, port |-> w.port, user |-> w.user, password |-> w.passwd]

\* The branch auto_settings=False of get_connection after a file was
\* found: with an engine key of PostgreSQL the file's values replace host,
\* port and password (its user goes to a variable nothing reads).
FromEnvFile(config, file) ==
    IF file.engine
    THEN [config EXCEPT !.host = file.HOST, !.port = file.PORT, !.password = file.PASSWORD]
    ELSE config

\* host = os.getenv('HOST') or host, and so on for port, user, password.
EnvOverride(config, env) ==
    [host |-> Or(env.HOST, config.host), port |-> Or(env.PORT, config.port),
     user |-> Or(env.USER, config.user), password |-> Or(env.PASSWORD, config.password)]

\* asyncpg.connect with the parameters p.
Opened(p) ==
    [opened |-> TRUE, host |-> p.host, port |-> p.port, user |-> p.user,
     password |-> p.password]

\* A show command: get_db_config_or_args, then
\* get_connection(**config, auto_settings=False).  No file: None is
\* returned and the command fails on it.  A password of None raises
\* TypeError at len(password) before the connect.
ShowSession ==
    /\ wf.pc = "dispatch" /\ wf.command = "show"
    /\ wf' = IF ~wf.file.found
             THEN [wf EXCEPT !.pc = "done", !.result = "no_session"]
             ELSE IF EnvOverride(FromEnvFile(get_db_config_or_args(wf), wf.file),
                                 wf.env).password = None
             THEN [wf EXCEPT !.pc = "done", !.result = "raised"]
             ELSE [wf EXCEPT !.pc = "done", !.result = "connected",
                     !.session = Opened(EnvOverride(
                                     FromEnvFile(get_db_config_or_args(wf), wf.file),
                                     wf.env))]
    /\ UNCHANGED <<fs, loc, rc, rs>>

\* drop_database / drop_user: asyncpg.connect(user=args.user,
\* host=args.hostname, port=args.port, password=args.passwd)
DropSession ==
    /\ wf.pc = "dispatch" /\ wf.command = "drop"
    /\ wf' = [wf EXCEPT !.pc = "done", !.result = "connected",
                !.session = Opened([host |-> wf.hostname, port |-> wf.port,
                                    user |-> wf.user, password |-> wf.passwd])]
    /\ UNCHANGED <<fs, loc, rc, rs>>

\* create_user_db.start(): HOST is psqlc.ini's server host or
\* args.hostname; asyncpg.connect(user=args.user, host=HOST, port=PORT,
\* password=args.passwd)
CreateSession ==
    /\ wf.pc = "dispatch" /\ wf.command = "create"
    /\ wf' = [wf EXCEPT !.pc = "done", !.result = "connected",
                !.session = Opened([host |-> Or(wf.ini_host, wf.hostname),
                                    port |-> wf.port, user |-> wf.user,
                                    password |-> wf.passwd])]
    /\ UNCHANGED <<fs, loc, rc, rs>>

NextConnection ==
    \/ Main
    \/ ShowSession
    \/ DropSession
    \/ CreateSession

SpecConnection == InitConnection /\ [][NextConnection]_vars

(***************************************************************************)
(* Properties of the session parameters.                                   *)
(***************************************************************************)
SessionDecided == wf.pc = "done"

\* C16 as stated: with a password on the command line and no $PASSWORD, a
\* show command that has a record or a located config file opens its
\* session with the command-line password.
C16_CliPasswordWins ==
    (/\ SessionDecided /\ wf.command = "show"
     /\ wf.cli_passwd = "clipw" /\ wf.env.PASSWORD = None
     /\ wf.file.found)
    => (wf.session.opened /\ wf.session.password = "clipw")

\* C17 as stated: whenever a command opens a session and an environment
\* variable is set for HOST, PORT, USER or PASSWORD, the session uses the
\* environment value.
C17_EnvironmentWins ==
    (SessionDecided /\ wf.session.opened) =>
        /\ wf.env.HOST # None => wf.session.host = wf.env.HOST
        /\ wf.env.PORT # None => wf.session.port = wf.env.PORT
        /\ wf.env.USER # None => wf.session.user = wf.env.USER
        /\ wf.env.PASSWORD # None => wf.session.password = wf.env.PASSWORD

\* C18 as stated: when no configuration artifact is located, a show command
\* still opens its session, with the explicit arguments and the defaults.
C18_NotFoundNonFatal ==
    (/\ SessionDecided /\ wf.command = "show"
     /\ ~wf.db_config.present /\ ~wf.file.found
     /\ wf.env = [HOST |-> None, PORT |-> None, USER |-> None, PASSWORD |-> None])
    => /\ wf.session.opened
       /\ wf.session.host = DefaultHost
       /\ wf.session.port = DefaultPort
       /\ wf.session.user = DefaultUser
       /\ wf.session.password = wf.cli_passwd

(***************************************************************************)
(* Properties of the errors raised by statements inside a workflow.        *)
(***************************************************************************)
\* The program points at which a statement runs on an open session and
\* whose success leads to a further step of the same operation: a step
\* from one of them straight to the end of the operation is the statement
\* raising a database error.
StatementPoints == {"terminate", "drop", "fetchval", "create_database"}

\* C20 as stated: a database error raised by a statement inside
\* drop_database, drop_user or create_user_db leaves the operation as an
\* exception, which is what run_command's retry rule acts on.
C20_DatabaseErrorsEscape ==
    [][(/\ wf.op \in {"drop_database", "drop_user", "create_user_db"}
        /\ wf.pc \in StatementPoints
        /\ wf'.pc = "done")
       => wf'.result = "raised"]_vars

(***************************************************************************)
(* Properties of the confirmations that guard destructive statements.      *)
(***************************************************************************)
\* The input each confirmation asks for: the target name in drop_database
\* and drop_user, the letter y in the recreate prompt of create_user_db.
RequiredInput == IF wf.op = "create_user_db" THEN <<"y">> ELSE wf.target

Confirming == wf.op \in {"drop_database", "drop_user", "create_user_db"}

\* C21 as stated: a DROP statement is issued only when the typed input is
\* exactly the required input, case-sensitively.
C21_ExactConfirmation ==
    (Confirming /\ DropIssued) => (wf.asked /\ wf.typed = RequiredInput)

\* C21 amended: a DROP statement is issued only when the typed input with
\* its surrounding whitespace removed (and, for the recreate prompt, put in
\* lower case) equals the required input; after any other input no DROP is
\* issued.
C21_ConfirmationGates ==
    Confirming =>
        /\ DropIssued => wf.asked
        /\ (wf.asked /\ wf.op # "create_user_db" /\ strip(wf.typed) # wf.target)
              => ~DropIssued
        /\ (wf.asked /\ wf.op = "create_user_db" /\ lower(strip(wf.typed)) # <<"y">>)
              => ~DropIssued

\* C21 witness: the recreate prompt was answered Y and DROP DATABASE was
\* issued.
C21_Witness ==
    /\ wf.op = "create_user_db"
    /\ wf.asked /\ wf.typed = <<"Y">>
    /\ DropIssued

(***************************************************************************)
(* Properties of the credential used by the retry of run_command.          *)
(***************************************************************************)
\* C22 as stated: every step of run_command from the except clause back to
\* the call of the operation has stored in args.passwd the value of
\* $PASSWORD if it is set, otherwise a password entered at the prompt.
C22_RetryAcquiresCredential ==
    [][(rc.pc = "except" /\ rc'.pc = "try") =>
          IF Truthy(rc.env_password)
          THEN rc'.passwd = rc.env_password
          ELSE rc.typed = None /\ Truthy(rc'.typed) /\ rc'.passwd = rc'.typed]_vars

(***************************************************************************)
(* Properties of the statement order of drop_database.                     *)
(***************************************************************************)
\* C23: in drop_database the statements issued are, in order, the
\* termination of the other backends and DROP DATABASE, on the one session
\* opened after a matching confirmation; DROP DATABASE is issued only from
\* the point the termination statement returned to, and an operation that
\* ended on a raised termination issues nothing more.
C23_TerminateBeforeDrop ==
    /\ [](wf.op = "drop_database" =>
            /\ wf.stmts \in { <<>>, <<"TERMINATE BACKENDS">>,
                              <<"TERMINATE BACKENDS", "DROP DATABASE">> }
            /\ wf.stmts # <<>> =>
                  (wf.opened = 1 /\ wf.asked /\ strip(wf.typed) = wf.target))
    /\ [][(wf.op = "drop_database" /\ Len(wf'.stmts) > Len(wf.stmts)
             /\ wf'.stmts[Len(wf'.stmts)] = "DROP DATABASE")
          => (wf.pc = "drop" /\ wf.open = {"conn"}
                /\ wf.stmts = <<"TERMINATE BACKENDS">>)]_vars
    /\ [][(wf.op = "drop_database" /\ wf.pc = "terminate" /\ wf'.pc # "drop")
          => (wf'.pc = "done" /\ wf'.stmts = <<"TERMINATE BACKENDS">>)]_vars
    /\ [][(wf.op = "drop_database" /\ wf.pc = "done") => wf' = wf]_vars

\* C23 witness: both statements were issued, in that order, on the session.
C23_Witness ==
    /\ wf.op = "drop_database"
    /\ wf.stmts = <<"TERMINATE BACKENDS", "DROP DATABASE">>
    /\ wf.open = {"conn"}

(***************************************************************************)
(* Properties of create_user_db after a failed superuser step.             *)
(***************************************************************************)
\* The superuser step of create_user_db has failed.
SuperuserFailed ==
    /\ wf.op = "create_user_db"
    /\ \/ wf.pc \in {"invalid_password", "super_error", "password_loop"}
       \/ wf.prompts > 0

\* C24 as stated: once the operator was prompted after a failed superuser
\* step, the workflow has ended, whatever was entered.
C24_OnePromptThenEnd ==
    (wf.op = "create_user_db" /\ wf.prompts >= 1) => wf.pc = "done"

\* C24 amended: after a failed superuser step the password prompt is
\* repeated only while the input is empty, every other input ends the
\* workflow at once (as does the single prompt after an invalid password);
\* no further session is opened and no statement is issued after the
\* failure, so the database-creation step is never reached.
C24_CorrectionPath ==
    /\ [][(wf.op = "create_user_db" /\ wf'.prompts = wf.prompts + 1) =>
             /\ wf.pc \in {"invalid_password", "password_loop"}
             /\ wf.pc = "invalid_password" => wf'.pc = "done"
             /\ wf.pc = "password_loop" =>
                   IF Truthy(wf'.args_password)
                   THEN wf'.pc = "done" /\ wf'.result = "returned"
                   ELSE wf'.pc = "password_loop"]_vars
    /\ [][SuperuserFailed =>
             /\ wf'.pc \in {"super_error", "password_loop", "done"}
             /\ wf'.opened = wf.opened
             /\ wf'.stmts = wf.stmts]_vars
    /\ [](SuperuserFailed =>
             /\ "newuser" \notin wf.open
             /\ wf.opened <= 1
             /\ \A i \in 1..Len(wf.stmts) : wf.stmts[i] \in {"CREATE USER", "ALTER USER"})

\* C24 witness: the superuser step failed, the operator entered nothing at
\* the first prompt and a quit word at the second, and the workflow ended.
C24_Witness ==
    /\ wf.op = "create_user_db"
    /\ wf.pc = "done" /\ wf.result = "returned"
    /\ wf.prompts = 2
    /\ wf.args_password = "q"

(***************************************************************************)
(* The alias matrix applied to flat configs that hold, for each field, any *)
(* of one PostgreSQL-branded key, one DB_ key and one plain key.           *)
(***************************************************************************)
\* For each field the three keys, in the order brand, DB_, plain.
GroupKeys ==
    [username |-> <<"POSTGRES_USER", "DB_USER", "USER">>,
     password |-> <<"POSTGRES_PASSWORD", "DB_PASSWORD", "PASSWORD">>,
     database |-> <<"POSTGRES_DB", "DB_NAME", "NAME">>,
     host |-> <<"POSTGRES_HOST", "DB_HOST", "HOST">>,
     port |-> <<"POSTGRES_PORT", "DB_PORT", "PORT">>]

AllGroupKeys ==
    UNION { { GroupKeys[f][i] : i \in 1..3 } : f \in DOMAIN GroupKeys }

\* ENGINE=postgresql and any subset of the keys, each holding its own name
\* as value.
AliasGroupCfgs ==
    { [k \in held \cup {"ENGINE"} |-> IF k = "ENGINE" THEN <<"postgresql">> ELSE <<k>>] :
        held \in SUBSET AllGroupKeys }

InitAliasGroups ==
    /\ fs = FsIdle
    /\ loc = LocIdle
    /\ rc = RcIdle
    /\ wf = WfIdle
    /\ \E c \in AliasGroupCfgs : rs = [pc |-> "loaded", shape |-> "flat", cfg |-> c]

NextAliasGroups == NormalizeFlat

SpecAliasGroups == InitAliasGroups /\ [][NextAliasGroups]_vars

\* C25 as stated: each field of the record the alias matrix resolves holds
\* the value of the branded key if present, else of the DB_ key if present,
\* else of the plain key (USER, PASSWORD, NAME, HOST, PORT) if present.
C25_GroupOrder ==
    (NormalizedFlat /\ rs.out.via = "alias") =>
        \A f \in DOMAIN GroupKeys :
            rs.out.fields[f] = FirstPresent(rs.cfg, GroupKeys[f])

(***************************************************************************)
(* The locator applied to trees with one directory that cannot be read:    *)
(* either only its listing fails (no read permission), or nothing inside   *)
(* it can be reached (no search permission), which holds for everything    *)
(* below it as well.  The scan starts outside such a directory.            *)
(***************************************************************************)
UnreadableTrees ==
    { [dirs |-> Skeleton,
       name |-> [d \in Skeleton |-> IF d = <<>> THEN <<>> ELSE PlainName],
       files |-> [d \in Skeleton |-> IF d \in T THEN {TargetName} ELSE {}],
       listable |-> Skeleton \ U,
       noaccess |-> IF searchable THEN {}
                    ELSE { d \in Skeleton : \E x \in U : Below(d, x) },
       is_file_raises |-> raises,
       content |-> <<>>] :
      T \in { X \in SUBSET Skeleton : Cardinality(X) <= MaxTargets },
      U \in { X \in SUBSET Skeleton : Cardinality(X) = 1 },
      searchable \in BOOLEAN,
      raises \in BOOLEAN }

InitUnreadable ==
    /\ rc = RcIdle
    /\ wf = WfIdle
    /\ rs = RsIdle
    /\ fs \in UnreadableTrees
    /\ \E s \in Skeleton \ fs.noaccess, up \in 0..MaxUp, down \in 0..MaxDown :
          loc = [pc |-> "ready", start_path |-> s,
                 max_depth_up |-> up, max_depth_down |-> down]

NextUnreadable == FindSettingsRecursive

SpecUnreadable == InitUnreadable /\ [][NextUnreadable]_vars

\* The tree f with every directory nothing can be reached in turned into a
\* directory that holds no file and whose listing gives no children.
AsChildless(f) ==
    [f EXCEPT !.files = [d \in f.dirs |-> IF d \in f.noaccess THEN {} ELSE f.files[d]],
              !.listable = f.listable \ f.noaccess,
              !.noaccess = {}]

\* What the locator returns: whether an error left it, whether a file was
\* found, and where.
Answer(out) == [raised |-> out.raised, found |-> out.found, dir |-> out.dir]

\* C26 as stated: an error met at a directory that cannot be read never
\* leaves find_settings_recursive, and the scan returns what it returns
\* for the tree in which that directory has no children, its siblings and
\* the ancestors of the upward phase being scanned as usual.
C26_UnreadableMeansChildless ==
    loc.pc = "done" =>
        Answer(loc.out) =
            Answer(find_settings_recursive(AsChildless(fs), loc.start_path,
                                           loc.max_depth_up, loc.max_depth_down,
                                           TargetName))

(***************************************************************************)
(* The settings.py branch applied to a DATABASES mapping of several        *)
(* entries, with the memo empty before the call.                           *)
(***************************************************************************)
MaxEntries == 3

\* The ENGINE values of an entry; NoText stands for an entry without the key.
EngineValues ==
    { NoText, <<"django.db.backends.sqlite3">>, <<"django.db.backends.postgresql">>,
      <<"Django.DB.Backends.PostgreSQL">>, <<"PostgreSQL">>, <<"postgre">>,
      <<".postgresql">>, <<".PostgreSQL">> }

\* The entry at position i of the mapping: its NAME tells the position.
EntryAt(i, engine) ==
    [k \in (IF engine = NoText THEN {} ELSE {"ENGINE"}) \cup {"NAME", "USER"} |->
        CASE k = "ENGINE" -> engine
          [] k = "NAME" -> <<"db", i>>
          [] k = "USER" -> <<"ru">>]

DatabasesMappings ==
    UNION { { [i \in 1..n |-> EntryAt(i, engines[i])] : engines \in [1..n -> EngineValues] } :
            n \in 0..MaxEntries }

InitFramework ==
    /\ fs = FsIdle
    /\ loc = LocIdle
    /\ rc = RcIdle
    /\ wf = WfIdle
    /\ \E dbs \in DatabasesMappings :
          rs = [pc |-> "loaded", DATABASES |-> dbs, cache |-> NoObject, ret |-> NoObject]

\* for db_key, cfg in databases_obj.items(): the first entry that passes
\* the ENGINE test is assigned to the memo and returned; None otherwise.
LoadSettings ==
    /\ rs.pc = "loaded"
    /\ rs' = [rs EXCEPT
                !.pc = "returned",
                !.ret = ReturnsLoaded(rs.cache, 1, 0,
                            FrameworkStrategy(SelectSeq(rs.DATABASES, IsPostgresEngine))).ret,
                !.cache = ReturnsLoaded(rs.cache, 1, 0,
                            FrameworkStrategy(SelectSeq(rs.DATABASES, IsPostgresEngine))).cache]
    /\ UNCHANGED <<fs, loc, rc, wf>>

NextFramework == LoadSettings

SpecFramework == InitFramework /\ [][NextFramework]_vars

(***************************************************************************)
(* Properties of the framework-settings shape.                             *)
(***************************************************************************)
\* The positions of the entries whose ENGINE is in the set engines.
PositionsWith(engines) ==
    { i \in 1..Len(rs.DATABASES) :
        "ENGINE" \in DOMAIN rs.DATABASES[i] /\ rs.DATABASES[i]["ENGINE"] \in engines }

\* The record is built from the first entry at one of the positions P, and
\* the call returns absent with the memo unset when P is empty.
BuiltFromFirstOf(P) ==
    IF P = {}
    THEN rs.ret = NoObject /\ rs.cache = NoObject
    ELSE /\ rs.ret # NoObject /\ rs.cache = rs.ret
         /\ rs.ret.fields.database = <<"db", CHOOSE i \in P : \A j \in P : i <= j>>
         /\ rs.ret.fields.username = <<"ru">>

\* C27 as stated: the eligible entries are those whose ENGINE is, in any
\* mix of upper and lower case, one of the accepted spellings.
C27_AnyCaseEngine ==
    rs.pc = "returned" =>
        BuiltFromFirstOf(PositionsWith(
            { <<"django.db.backends.postgresql">>, <<"Django.DB.Backends.PostgreSQL">>,
              <<"PostgreSQL">>, <<"postgre">>, <<".postgresql">>, <<".PostgreSQL">> }))

\* C27 amended: the eligible entries are those whose ENGINE is exactly
\* django.db.backends.postgresql or .postgresql, or is postgresql, postgres
\* or postgre in any mix of upper and lower case.
C27_FirstEligibleEntry ==
    rs.pc = "returned" =>
        BuiltFromFirstOf(PositionsWith(
            { <<"django.db.backends.postgresql">>, <<"PostgreSQL">>, <<"postgre">>,
              <<".postgresql">> }))

\* C27 witness: a sqlite entry, then an entry with ENGINE PostgreSQL, then
\* one with the Django backend name; the record is built from the second.
C27_Witness ==
    /\ rs.pc = "returned"
    /\ Len(rs.DATABASES) = 3
    /\ "ENGINE" \in DOMAIN rs.DATABASES[1]
    /\ rs.DATABASES[1]["ENGINE"] = <<"django.db.backends.sqlite3">>
    /\ "ENGINE" \in DOMAIN rs.DATABASES[2]
    /\ rs.DATABASES[2]["ENGINE"] = <<"PostgreSQL">>
    /\ "ENGINE" \in DOMAIN rs.DATABASES[3]
    /\ rs.DATABASES[3]["ENGINE"] = <<"django.db.backends.postgresql">>
    /\ rs.ret.fields.database = <<"db", 2>>

(***************************************************************************)
(* `drop database` from the command line: main applies the resolved        *)
(* record to args, then drop_database runs on what main left.              *)
(***************************************************************************)
\* The record main resolves: None, or a record with or without database,
\* host and port.
DropRecords ==
    { [present |-> FALSE, database |-> NoText, host |-> None, port |-> None],
      [present |-> TRUE, database |-> <<"S">>, host |-> "rh", port |-> "6543"],
      [present |-> TRUE, database |-> <<"S">>, host |-> None, port |-> None],
      [present |-> TRUE, database |-> NoText, host |-> "rh", port |-> None] }

InitMainDrop ==
    /\ fs = FsIdle
    /\ loc = LocIdle
    /\ rc = RcIdle
    /\ rs = RsIdle
    /\ \E d \in {NoText, <<"s">>, <<"S">>}, r \in DropRecords :
          wf = [pc |-> "main", op |-> "drop_database", cli_database |-> d, record |-> r]

\* The three assignments of main kept as written, but with the name given
\* by -d/--database preferred over the record's.
MainKeepsGivenName ==
    /\ wf.pc = "main" /\ wf.op = "drop_database"
    /\ wf' = WfStart("drop_database",
                     IF Given(wf.cli_database) THEN wf.cli_database
                     ELSE wf.record.database)
             @@ [cfg_database |-> wf.record.database,
                 hostname |-> IF wf.record.present THEN Or(wf.record.host, DefaultHost)
                              ELSE DefaultHost,
                 port |-> IF wf.record.present THEN Or(wf.record.port, DefaultPort)
                          ELSE DefaultPort]
             @@ wf
    /\ UNCHANGED <<fs, loc, rc, rs>>

\* main: if db_config: args.database = db_config.get('database') or
\* args.database, the same for args.hostname and args.port; then the
\* dispatch to drop_database, whose own call of parse_django_settings gets
\* the record again.
MainBeforeDrop ==
    /\ wf.pc = "main" /\ wf.op = "drop_database"
    /\ wf' = WfStart("drop_database",
                     IF wf.record.present /\ Given(wf.record.database)
                     THEN wf.record.database ELSE wf.cli_database)
             @@ [cfg_database |-> wf.record.database,
                 hostname |-> IF wf.record.present THEN Or(wf.record.host, DefaultHost)
                              ELSE DefaultHost,
                 port |-> IF wf.record.present THEN Or(wf.record.port, DefaultPort)
                          ELSE DefaultPort]
             @@ wf
    /\ UNCHANGED <<fs, loc, rc, rs>>

NextMainDrop ==
    \/ MainBeforeDrop
    \/ DropDatabaseEnter
    \/ DropDatabaseConfirm
    \/ DropDatabaseConnect
    \/ DropDatabaseTerminate
    \/ DropDatabaseExecute
    \/ DropDatabaseClose

SpecMainDrop == InitMainDrop /\ [][NextMainDrop]_vars

C30_IncompleteExitsEarly ==
    (wf.op = "create_user_db" /\ wf.pc # "enter"
       /\ ~(Truthy(wf.username) /\ Truthy(wf.password) /\ Truthy(wf.database))) =>
        /\ wf.pc = "done" /\ wf.result = "exited"
        /\ wf.opened = 0 /\ wf.open = {}
        /\ wf.stmts = <<>>

\* C30 witness: -u and -d were given, the record has no password, and the
\* process exited with nothing opened.
C30_Witness ==
    /\ wf.op = "create_user_db" /\ wf.pc = "done" /\ wf.result = "exited"
    /\ wf.CONFIG.len = 0
    /\ wf.args_username = "fu" /\ wf.args_database = "fd" /\ wf.args_password = None
    /\ wf.db_config.present /\ wf.db_config.password = None
    /\ wf.username = "fu" /\ wf.database = "fd" /\ wf.password = None
    /\ wf.opened = 0 /\ wf.stmts = <<>>

====
